---- MODULE Spec2Model ----
(***************************************************************************)
(* Model of the cyberdriver reverse-tunnel client (src/cyberdriver.py):    *)
(* the reconnect supervisor TunnelClient.run, one tunnel session           *)
(* (_connect_and_run, _forward_request, _send_response), the idempotency   *)
(* cache and the KeepAliveManager scheduler with its remote-control        *)
(* endpoints.                                                              *)
(*                                                                         *)
(* Times are counted in tenths of a second, so that the 0-30% jitter of a  *)
(* whole-second backoff delay is exact.                                    *)
(***************************************************************************)
EXTENDS Integers, Sequences, FiniteSets, TLC

VARIABLES
    now,                  \* time.time(), in tenths of a second
    sup_pc,               \* position of TunnelClient.run
    sleep_time,           \* run(): local sleep_time (seconds)
    consecutive_failures, \* TunnelClient._consecutive_failures
    connection_attempt,   \* TunnelClient._connection_attempt
    connection_start,     \* run(): local connection_start
    sleep_until,          \* wake-up time of the pending asyncio.sleep of run()
    exit_code,            \* argument of sys.exit, meaningful once sup_pc = "exited"
    last_term,            \* history: the last termination run() handled
    last_sleep,           \* history: the last asyncio.sleep run() started
    idempotency_cache,    \* TunnelClient._idempotency_cache, in insertion order
    sess_pc,              \* position of the receive loop of _connect_and_run
    request_meta,         \* _connect_and_run: request_meta, <<>> for None
    body_buffer,          \* _connect_and_run: body_buffer, the frames received
    response,             \* the response being sent, <<>> when there is none
    sent_frames,          \* frames sent on the WebSocket since the last dispatch began
    forward_count,        \* history: requests sent to the loopback origin
    dispatch_log,         \* history: the last dispatch that produced a response
    first_response,       \* history: per key, the response first produced for it
    keepalive_enabled,    \* run_join: keepalive_enabled (--keepalive)
    enabled,              \* KeepAliveManager.enabled
    last_activity_ts,     \* KeepAliveManager.last_activity_ts
    next_allowed_ts,      \* KeepAliveManager._next_allowed_ts
    idle_event,           \* KeepAliveManager._idle_event: "none", "set", "clear"
    schedule_event,       \* KeepAliveManager._schedule_event: "none", "set", "clear"
    ka_pc,                \* position of KeepAliveManager.run
    ka_deadline,          \* wake-up time of the scheduler's asyncio.sleep(remaining)
    tunnel_task,          \* run_join: tunnel_task, "none" for None, else "task"
    tunnels_made,         \* history: calls of make_tunnel()
    websockets_open,      \* history: WebSockets to the cloud that are open
    platform_system,      \* platform.system()
    pid_file,             \* what reading and parsing the PID file gives
    process,              \* the process that has the PID the file names
    cmd,                  \* the stop or join command run on this host, and its outcome
    frames_since_meta,    \* history: the binary frames received for the open request
    ends_without_request, \* history: forward_count at each "end" that had no request
    black_screen,         \* run_join: black_screen_manager and black_screen_task
    stdio_log,            \* _SizeCappedTextWriter over the stdio log file
    config,               \* config.json, the running VERSION, what get_config returned
    joins                 \* two concurrent `join` processes, by position

supVars == <<sup_pc, sleep_time, consecutive_failures, connection_attempt,
             connection_start, sleep_until, exit_code, last_term, last_sleep>>

sessVars == <<sess_pc, request_meta, body_buffer, frames_since_meta, response, sent_frames,
              forward_count, dispatch_log, first_response>>

kaVars == <<keepalive_enabled, enabled, last_activity_ts, next_allowed_ts,
            idle_event, schedule_event, ka_pc, ka_deadline>>

taskVars == <<tunnel_task, tunnels_made>>

auxVars == <<ends_without_request, black_screen, stdio_log, config, joins>>

osVars == <<platform_system, pid_file, process, cmd, auxVars>>

hostVars == <<taskVars, websockets_open, osVars>>

vars == <<now, supVars, idempotency_cache, sessVars, kaVars, hostVars>>

----------------------------------------------------------------------------
(* Bounds of the model *)

\* connection attempts explored by the supervisor specification
MaxAttempts == 6

\* connection attempts explored together with the traffic of the sessions
MaxTunnelAttempts == 2

\* the clock of the specifications that model it stops here (seconds)
MaxSeconds == 90

\* the clock of the specification with the keepalive scheduler stops here
MaxKeepaliveSeconds == 30

\* requests forwarded to the origin in one run
MaxRequests == 2

\* binary frames buffered for one request
MaxBodyFrames == 1

\* keyed requests, each with a key of its own, sent in one session
MaxCacheRequests == 1002

\* full chunks in the longest response body
MaxChunks == 3

\* tunnels made in one process by the interactive enable command
MaxTunnels == 2

\* connection attempts followed with the cache across reconnections
MaxReconnects == 3

----------------------------------------------------------------------------
(* Helpers *)

Seconds(n) == n * 10

Min(a, b) == IF a <= b THEN a ELSE b

Max(a, b) == IF a >= b THEN a ELSE b

MaxTime == Seconds(MaxSeconds)

MaxKeepaliveTime == Seconds(MaxKeepaliveSeconds)

\* granularity of the passage of time while coroutines await I/O
TickStep == Seconds(30)

\* str values are modelled as tuples of characters
Digits == <<"0", "1", "2", "3", "4", "5", "6", "7", "8", "9">>

IsDigit(c) == \E d \in 1..10 : Digits[d] = c

DigitValue(c) == (CHOOSE d \in 1..10 : Digits[d] = c) - 1

StrWait == <<"W", "a", "i", "t", " ">>

StrSeconds == <<" ", "s", "e", "c", "o", "n", "d", "s">>

\* s[i:i+len(lit)] == lit
MatchesAt(s, i, lit) ==
    /\ i + Len(lit) - 1 <= Len(s)
    /\ \A k \in 1..Len(lit) : s[i + k - 1] = lit[k]

\* end (exclusive) of the maximal run of digits of s starting at i
RECURSIVE DigitRunEnd(_, _)
DigitRunEnd(s, i) ==
    IF i <= Len(s) /\ IsDigit(s[i]) THEN DigitRunEnd(s, i + 1) ELSE i

\* int(s[i:j])
RECURSIVE IntOf(_, _, _)
IntOf(s, i, j) ==
    IF j <= i THEN 0 ELSE IntOf(s, i, j - 1) * 10 + DigitValue(s[j - 1])

\* re.search(r'Wait (\d+) seconds', s) matches with "Wait " at position i
WaitMatchAt(s, i) ==
    /\ MatchesAt(s, i, StrWait)
    /\ DigitRunEnd(s, i + 5) > i + 5
    /\ MatchesAt(s, DigitRunEnd(s, i + 5), StrSeconds)

----------------------------------------------------------------------------
(* TunnelClient.__init__ and the pure parts of TunnelClient.run *)

min_sleep == 1

max_sleep == 16

\* the default rate-limit wait
DefaultWaitSeconds == 60

\* the short-lived connection limit of run(), in seconds
ShortLivedLimit == 10

\* close_code = None
NoCode == 0

CloseCodeAuth == 4001

StatusForbidden == 403

CloseCodeRateLimit == 4008

\* mutant: re.match in the place of re.search
ParseWaitSecondsAnchored(close_reason) ==
    IF Len(close_reason) > 0 /\ WaitMatchAt(close_reason, 1)
    THEN IntOf(close_reason, 6, DigitRunEnd(close_reason, 6))
    ELSE DefaultWaitSeconds

\* wait_seconds of the rate-limit branch
ParseWaitSeconds(close_reason) ==
    IF Len(close_reason) = 0
    THEN DefaultWaitSeconds
    ELSE IF \E i \in 1..Len(close_reason) : WaitMatchAt(close_reason, i)
         THEN LET i == CHOOSE i \in 1..Len(close_reason) :
                           /\ WaitMatchAt(close_reason, i)
                           /\ \A k \in 1..(i - 1) : ~WaitMatchAt(close_reason, k)
              IN  IntOf(close_reason, i + 5, DigitRunEnd(close_reason, i + 5))
         ELSE DefaultWaitSeconds

\* mutant: >= in the place of >
FailuresAfterInclusive(failures, connection_duration) ==
    IF connection_duration >= Seconds(ShortLivedLimit) THEN 0 ELSE failures + 1

\* if connection_duration > 10: reset, else: increment
FailuresAfter(failures, connection_duration) ==
    IF connection_duration > Seconds(ShortLivedLimit) THEN 0 ELSE failures + 1

\* mutant: every close that carries a code ends the process
IsAuthErrorAnyCode(close_code) == close_code # NoCode

\* mutant: the close code 4001 is forgotten
IsAuthErrorStatusOnly(close_code) == close_code = StatusForbidden

IsAuthError(close_code) ==
    close_code = CloseCodeAuth \/ close_code = StatusForbidden

\* mutant: no sleep at all
JitteredSleepNone(st, jitter) == 0

\* sleep_time * (1 + random.uniform(0, 0.3)), jitter in tenths
JitteredSleep(st, jitter) == st * (10 + jitter)

\* mutant: the doubling is not capped
NextSleepTimeUncapped(st) == st * 2

\* sleep_time = min(sleep_time * 2, self.max_sleep)
NextSleepTime(st) == Min(st * 2, max_sleep)

\* mutant: the rate-limit wait leaves sleep_time alone
SleepTimeKept(st) == st

\* "Reset sleep time after rate limit wait"
SleepTimeAfterRateLimit(st) == min_sleep

\* mutant: the cleanup leaves the cache as it is
CleanupKeepsCache(cache) == cache

\* step 2 of _cleanup_before_retry
CleanupBeforeRetry(cache) == <<>>

----------------------------------------------------------------------------
(* Header names: str.lower() *)

UpperCase ==
    <<"A", "B", "C", "D", "E", "F", "G", "H", "I", "J", "K", "L", "M",
      "N", "O", "P", "Q", "R", "S", "T", "U", "V", "W", "X", "Y", "Z">>

LowerCase ==
    <<"a", "b", "c", "d", "e", "f", "g", "h", "i", "j", "k", "l", "m",
      "n", "o", "p", "q", "r", "s", "t", "u", "v", "w", "x", "y", "z">>

LowerChar(c) ==
    IF \E k \in 1..26 : UpperCase[k] = c
    THEN LowerCase[CHOOSE k \in 1..26 : UpperCase[k] = c]
    ELSE c

\* key.lower()
Lower(name) == [k \in 1..Len(name) |-> LowerChar(name[k])]

StrIdempotencyKey ==
    <<"x", "-", "i", "d", "e", "m", "p", "o", "t", "e", "n", "c", "y", "-", "k", "e", "y">>

----------------------------------------------------------------------------
(* The idempotency cache: a dict, kept as its items in insertion order *)

\* mutant: entries live ten minutes
TenMinutesTTL == 10 * 60

IDEMPOTENCY_CACHE_TTL == 60

IDEMPOTENCY_CACHE_MAX_SIZE == 1000

\* idempotency_key = None
NoKey == [found |-> FALSE, value |-> ""]

\* mutant: the header name is compared as sent
FirstKeyHeaderExact(headers) ==
    IF \E k \in 1..Len(headers) : headers[k][1] = StrIdempotencyKey
    THEN [found |-> TRUE,
          value |-> headers[CHOOSE k \in 1..Len(headers) :
                                /\ headers[k][1] = StrIdempotencyKey
                                /\ \A j \in 1..(k - 1) :
                                       headers[j][1] # StrIdempotencyKey][2]]
    ELSE NoKey

\* the loop over headers.items() of _forward_request: the value of the first
\* header whose lower-cased name is x-idempotency-key
FirstKeyHeader(headers) ==
    IF \E k \in 1..Len(headers) : Lower(headers[k][1]) = StrIdempotencyKey
    THEN [found |-> TRUE,
          value |-> headers[CHOOSE k \in 1..Len(headers) :
                                /\ Lower(headers[k][1]) = StrIdempotencyKey
                                /\ \A j \in 1..(k - 1) :
                                       Lower(headers[j][1]) # StrIdempotencyKey][2]]
    ELSE NoKey

\* `if idempotency_key:` (None and "" are both false)
KeyGiven(key) == key.found /\ key.value # ""

HasKey(cache, k) == \E i \in 1..Len(cache) : cache[i].key = k

EntryOf(cache, k) == cache[CHOOSE i \in 1..Len(cache) : cache[i].key = k]

\* position of entry i in sorted(snapshot, key=timestamp), a stable sort
SortedPosition(cache, i) ==
    Cardinality({j \in 1..Len(cache) :
                   \/ cache[j].ts < cache[i].ts
                   \/ (cache[j].ts = cache[i].ts /\ j < i)}) + 1

\* the place of key k in the dict
IndexOf(cache, k) == CHOOSE i \in 1..Len(cache) : cache[i].key = k

\* cache without the entries whose sorted position is <= n
DropOldest(cache, n) ==
    SelectSeq(cache,
              LAMBDA entry : SortedPosition(cache, IndexOf(cache, entry.key)) > n)

Expired(entry, t) == t - entry.ts > Seconds(IDEMPOTENCY_CACHE_TTL)

\* cache without its expired entries
DropExpired(cache, t) == SelectSeq(cache, LAMBDA entry : ~Expired(entry, t))

\* _cleanup_idempotency_cache at time t
CleanupIdempotencyCache(cache, t) ==
    LET live == DropExpired(cache, t)
    IN  IF Len(live) > IDEMPOTENCY_CACHE_MAX_SIZE
        THEN DropOldest(live, Len(live) \div 5)
        ELSE live

\* mutant: an entry is served whatever its age
CacheHitAnyAge(cache, key, t) == HasKey(cache, key.value)

\* mutant: an entry exactly 60 s old is still served
CacheHitInclusive(cache, key, t) ==
    /\ HasKey(cache, key.value)
    /\ t - EntryOf(cache, key.value).ts <= Seconds(IDEMPOTENCY_CACHE_TTL)

\* `idempotency_key in cache and time.time() - cached_time < TTL`
CacheHit(cache, key, t) ==
    /\ HasKey(cache, key.value)
    /\ t - EntryOf(cache, key.value).ts < Seconds(IDEMPOTENCY_CACHE_TTL)

\* mutant: only responses below 400 are stored
CachePutSuccessOnly(cache, k, t, result) ==
    IF result.status >= 400
    THEN cache
    ELSE IF HasKey(cache, k)
         THEN [i \in 1..Len(cache) |->
                  IF cache[i].key = k
                  THEN [key |-> k, ts |-> t, response |-> result]
                  ELSE cache[i]]
         ELSE Append(cache, [key |-> k, ts |-> t, response |-> result])

\* self._idempotency_cache[idempotency_key] = (time.time(), result)
CachePut(cache, k, t, result) ==
    IF HasKey(cache, k)
    THEN [i \in 1..Len(cache) |->
             IF cache[i].key = k
             THEN [key |-> k, ts |-> t, response |-> result]
             ELSE cache[i]]
    ELSE Append(cache, [key |-> k, ts |-> t, response |-> result])

----------------------------------------------------------------------------
(* _forward_request after the origin has answered, _send_response *)

\* bytes are modelled by what they are (id) and how many they are (len)
ErrorText == [id |-> "error text", len |-> 24]

\* json.dumps(placeholder).encode("utf-8")
Placeholder == [id |-> "placeholder", len |-> 120]

HeadersText == [content_type |-> "text/plain"]

\* mutant: the error string is dropped
TransportErrorEmpty ==
    [status |-> 500, headers |-> HeadersText, body |-> [id |-> "", len |-> 0]]

\* the `except Exception` result of _forward_request
TransportErrorResult == [status |-> 500, headers |-> HeadersText, body |-> ErrorText]

\* the empty-body enrichment of results with status >= 400
Enrich(result) ==
    IF result.status >= 400 /\ result.body.len = 0
    THEN [status |-> result.status,
          headers |-> [result.headers EXCEPT !.content_type = "application/json"],
          body |-> Placeholder]
    ELSE result

\* result of _forward_request for an outcome of the HTTP exchange
ForwardResult(outcome) ==
    IF outcome.kind = "exception"
    THEN Enrich(TransportErrorResult)
    ELSE Enrich([status |-> outcome.status, headers |-> outcome.headers,
                 body |-> outcome.body])

\* chunk_size = 16 * 1024
chunk_size == 16384

MetaFrame(meta, resp) ==
    [type |-> "meta", requestId |-> meta.requestId, status |-> resp.status,
     headers |-> resp.headers, lo |-> 0, hi |-> 0, body |-> ""]

\* mutant: a slice one byte too long
ChunkFrameLong(body, i) ==
    [type |-> "binary", requestId |-> "", status |-> 0, headers |-> HeadersText,
     lo |-> i, hi |-> Min(i + chunk_size + 1, body.len), body |-> body.id]

\* chunk = body[i:i + chunk_size]
ChunkFrame(body, i) ==
    [type |-> "binary", requestId |-> "", status |-> 0, headers |-> HeadersText,
     lo |-> i, hi |-> Min(i + chunk_size, body.len), body |-> body.id]

EndFrame ==
    [type |-> "end", requestId |-> "", status |-> 0, headers |-> HeadersText,
     lo |-> 0, hi |-> 0, body |-> ""]

\* mutant: the end marker is not sent
ResponseFramesNoEnd(meta, resp) ==
    <<MetaFrame(meta, resp)>>
    \o [k \in 1..((resp.body.len + chunk_size - 1) \div chunk_size) |->
            ChunkFrame(resp.body, (k - 1) * chunk_size)]

\* mutant: a last chunk shorter than chunk_size is not sent
NumChunksFloor(n) == n \div chunk_size

\* len(range(0, n, chunk_size))
NumChunks(n) == (n + chunk_size - 1) \div chunk_size

\* the frames _send_response sends, in order
ResponseFrames(meta, resp) ==
    <<MetaFrame(meta, resp)>>
    \o [k \in 1..NumChunks(resp.body.len) |->
            ChunkFrame(resp.body, (k - 1) * chunk_size)]
    \o <<EndFrame>>

----------------------------------------------------------------------------
(* KeepAliveManager.__init__ *)

\* threshold_seconds = max(10.0, threshold_minutes * 60): the smallest value
ThresholdSeconds == 10

threshold_seconds == Seconds(ThresholdSeconds)

\* min(7.0, base * 0.2): the bound of the cooldown jitter
CooldownJitterBound == Min(Seconds(7), threshold_seconds \div 5)

\* max(0.0, base + jitter)
Cooldown(jitter) == Max(0, threshold_seconds + jitter)

\* max(self.last_activity_ts + self.threshold_seconds, self._next_allowed_ts)
EarliestAction(last, allowed) == Max(last + threshold_seconds, allowed)

----------------------------------------------------------------------------
(* Inputs *)

\* random.uniform(0, 0.3), in tenths: the two ends of the range
JitterChoices == {0, 3}

\* time.time() - connection_start as read by the handlers of run()
DurationChoices ==
    {Seconds(1), Seconds(10) - 1, Seconds(10), Seconds(10) + 1, Seconds(60)}

ReasonNone == <<>>

ReasonWait12 ==
    <<"W", "a", "i", "t", " ", "1", "2", " ", "s", "e", "c", "o", "n", "d", "s">>

ReasonEmbedded ==
    <<"o", "k", " ", "W", "a", "i", "t", " ", "3", " ", "s", "e", "c", "o", "n", "d", "s", "!">>

ReasonNoDigits ==
    <<"W", "a", "i", "t", " ", "a", " ", "s", "e", "c", "o", "n", "d", "s">>

ReasonOther == <<"b", "y", "e">>

\* (close code, close reason) of the ConnectionClosed a session can end with
CloseEvents ==
    { <<NoCode, ReasonNone>>,
      <<1011, ReasonOther>>,
      <<CloseCodeAuth, ReasonOther>>,
      <<CloseCodeRateLimit, ReasonNone>>,
      <<CloseCodeRateLimit, ReasonWait12>>,
      <<CloseCodeRateLimit, ReasonEmbedded>>,
      <<CloseCodeRateLimit, ReasonNoDigits>> }

\* the close events explored together with the traffic of the sessions
TunnelCloseEvents == { <<NoCode, ReasonNone>> }

\* the closes explored with the reconnections: an ordinary one and a rate limit
ReconnectCloseEvents ==
    { <<1011, ReasonOther>>, <<CloseCodeRateLimit, ReasonWait12>> }

\* HTTP status of a rejected upgrade (InvalidStatus); NoCode: TCP or TLS error
ConnectFailures == {NoCode, StatusForbidden}

HeaderKeyMixedCase ==
    <<"X", "-", "I", "d", "e", "m", "p", "o", "t", "e", "n", "c", "y", "-", "K", "e", "y">>

HeaderAccept == <<"A", "c", "c", "e", "p", "t">>

\* request metas (the JSON text frames the cloud sends)
MetaKeyed ==
    [requestId |-> "r1", method |-> "post", path |-> "/computer/input/mouse/click",
     headers |-> << <<HeaderKeyMixedCase, "abc">> >>]

MetaReplay ==
    [requestId |-> "r2", method |-> "post", path |-> "/computer/input/mouse/click",
     headers |-> << <<HeaderAccept, "*/*">>, <<StrIdempotencyKey, "abc">> >>]

MetaPlain ==
    [requestId |-> "r3", method |-> "GET", path |-> "/computer/display/dimensions",
     headers |-> << <<HeaderAccept, "*/*">> >>]

MetaEmptyKey ==
    [requestId |-> "r4", method |-> "POST", path |-> "/computer/input/mouse/click",
     headers |-> << <<HeaderKeyMixedCase, "">> >>]

\* valid JSON, an object, without "method"
MetaNoMethod ==
    [requestId |-> "r5", path |-> "/computer/display/dimensions",
     headers |-> << <<HeaderAccept, "*/*">> >>]

\* the n-th of a series of requests that each carry a key of their own
MetaFresh(n) ==
    [requestId |-> ToString(n), method |-> "POST",
     path |-> "/computer/input/mouse/click",
     headers |-> << <<HeaderKeyMixedCase, ToString(n)>> >>]

\* the metas explored with the protocol errors
FrameMetas == {MetaKeyed, MetaPlain, MetaNoMethod}

Metas == {MetaKeyed, MetaReplay, MetaPlain, MetaEmptyKey}

\* the values of X-Idempotency-Key whose responses are followed
KeyValues == {"abc"}

NoBytes == [id |-> "", len |-> 0]

OriginResponse(status, content_type, body) ==
    [kind |-> "response", status |-> status,
     headers |-> [content_type |-> content_type], body |-> body]

OutcomePong == OriginResponse(200, "text/plain", [id |-> "pong", len |-> 4])

\* what the HTTP exchange with the loopback origin can end with
OriginOutcomes ==
    { OutcomePong,
      OriginResponse(200, "application/octet-stream",
                     [id |-> "one chunk", len |-> chunk_size]),
      OriginResponse(200, "application/octet-stream",
                     [id |-> "one chunk and a byte", len |-> chunk_size + 1]),
      OriginResponse(204, "text/plain", NoBytes),
      OriginResponse(404, "text/plain", NoBytes),
      [kind |-> "exception", status |-> 0, headers |-> HeadersText,
       body |-> NoBytes] }

\* body lengths around every multiple of chunk_size, and 40000
BodyLengths ==
    {n \in {k * chunk_size + d : k \in 0..MaxChunks, d \in {0 - 1, 0, 1}}
             \cup {40000} :
        n >= 0 /\ n <= MaxChunks * chunk_size}

\* the origin answers 200 with a body of each of these lengths
ChunkOutcomes ==
    {OriginResponse(200, "application/octet-stream", [id |-> "body", len |-> n]) :
        n \in BodyLengths}

\* the outcomes explored with the protocol errors
FrameOutcomes ==
    { OutcomePong,
      OriginResponse(503, "text/html", [id |-> "unavailable", len |-> 19]),
      OriginResponse(500, "text/plain", NoBytes),
      OriginResponse(200, "application/octet-stream",
                     [id |-> "one chunk and a byte", len |-> chunk_size + 1]),
      [kind |-> "exception", status |-> 0, headers |-> HeadersText,
       body |-> NoBytes] }

\* time.time() - connection_start explored with the protocol errors
FrameDurations == {Seconds(1), Seconds(60)}

\* random.uniform(-7.0, 7.0) of the remote activity endpoint
ActivityJitterChoices == {0 - Seconds(7), Seconds(7)}

\* random.uniform(-bound, bound) of the cooldown
CooldownJitterChoices == {0 - CooldownJitterBound, CooldownJitterBound}

----------------------------------------------------------------------------
(* State after construction: TunnelClient.__init__, run() before its loop, *)
(* KeepAliveManager.__init__                                               *)

NoTerm ==
    [kind |-> "none", code |-> NoCode, reason |-> ReasonNone, duration |-> 0,
     failures_before |-> 0, sleep_time_before |-> min_sleep, attempt |-> 0]

NoSleep ==
    [kind |-> "none", duration |-> 0, base |-> 0, attempt |-> 0, index |-> 0]

InitSup ==
    /\ sup_pc = "loop"
    /\ sleep_time = min_sleep
    /\ consecutive_failures = 0
    /\ connection_attempt = 0
    /\ connection_start = 0
    /\ sleep_until = 0
    /\ exit_code = 0
    /\ last_term = NoTerm
    /\ last_sleep = NoSleep

InitSession ==
    /\ idempotency_cache = <<>>
    /\ sess_pc = "closed"
    /\ request_meta = <<>>
    /\ body_buffer = <<>>
    /\ frames_since_meta = <<>>
    /\ response = <<>>
    /\ sent_frames = <<>>
    /\ forward_count = 0
    /\ dispatch_log = <<>>
    /\ first_response = [k \in KeyValues |-> <<>>]

InitKeepAliveManager(flag) ==
    /\ keepalive_enabled = flag
    /\ enabled = flag
    /\ last_activity_ts = now
    /\ next_allowed_ts = now + threshold_seconds
    /\ idle_event = "none"
    /\ schedule_event = "none"
    /\ ka_pc = "not_started"
    /\ ka_deadline = 0

\* no command is being run
NoCmd == [name |-> "none", force |-> FALSE, exit_code |-> 0,
          signalled |-> FALSE, proceeds |-> FALSE]

\* black-screen recovery was not requested and its task does not exist
NoWatchdog == [requested |-> FALSE, enabled |-> FALSE, stop |-> FALSE,
               pc |-> "none", captures |-> 0, switches |-> 0]

\* no writer has been constructed over the stdio log
NoLog == [open |-> FALSE, size_bytes |-> 0, file_bytes |-> 0, writes |-> 0,
          written_since_open |-> FALSE, asked |-> 0, truncated |-> 0,
          base |-> 0, written |-> 0]

\* there is no config.json
NoConfigFile == [kind |-> "absent", version |-> 0, has_fingerprint |-> FALSE,
                 fingerprint |-> 0]

\* get_config has not been called
NoConfig == [file |-> NoConfigFile, VERSION |-> 1, calls |-> 0,
             returned |-> 0, raised |-> FALSE, rewrote |-> FALSE, minted |-> 0]

\* no second `join` is being started
NoJoins == <<>>

\* the parts of the process that a run does not exercise
InitAux ==
    /\ ends_without_request = <<>>
    /\ black_screen = NoWatchdog
    /\ stdio_log = NoLog
    /\ config = NoConfig
    /\ joins = NoJoins

\* run_join has written the PID file of this process (write_pid_info) and
\* started the tunnel (start_tunnel); no websocket is open yet
InitHost ==
    /\ tunnel_task = "task"
    /\ tunnels_made = 1
    /\ websockets_open = 0
    /\ platform_system = "Linux"
    /\ pid_file = [kind |-> "pid", argv_cyberdriver |-> TRUE]
    /\ process = [running |-> TRUE, image |-> "python", cyberdriver |-> TRUE]
    /\ cmd = NoCmd
    /\ InitAux

\* the hosts a command is run on
Platforms == {"Windows", "Linux"}

\* what tasklist reports for the PID, lower-cased; "" when it reports nothing
Images == {"", "cyberdriver.exe", "python.exe", "pythonw.exe", "notepad.exe"}

\* the PID file: absent, not JSON, JSON without a usable "pid", or naming a
\* PID, with an "argv" that contains "cyberdriver" or not
PidFiles ==
    { [kind |-> k, argv_cyberdriver |-> FALSE] :
          k \in {"absent", "unparsable", "no_pid"} }
    \cup { [kind |-> "pid", argv_cyberdriver |-> a] : a \in BOOLEAN }

\* the process the PID names: gone, or alive under some image, the instance
\* that wrote the file or another process that got its PID
Processes ==
    { [running |-> FALSE, image |-> "", cyberdriver |-> FALSE] }
    \cup { [running |-> TRUE, image |-> i, cyberdriver |-> c] :
               i \in Images \ {"notepad.exe"}, c \in BOOLEAN }
    \cup { [running |-> TRUE, image |-> "notepad.exe", cyberdriver |-> FALSE] }

\* a stop or join command is about to run on a host in any condition
InitCommand ==
    /\ now = 0
    /\ InitSup
    /\ InitSession
    /\ InitKeepAliveManager(FALSE)
    /\ tunnel_task = "none"
    /\ tunnels_made = 0
    /\ websockets_open = 0
    /\ platform_system \in Platforms
    /\ pid_file \in PidFiles
    /\ process \in Processes
    /\ cmd = NoCmd
    /\ InitAux

\* cyberdriver join without --keepalive
Init ==
    /\ now = 0
    /\ InitSup
    /\ InitSession
    /\ InitKeepAliveManager(FALSE)
    /\ InitHost

\* cyberdriver join --keepalive
InitKeepalive ==
    /\ now = 0
    /\ InitSup
    /\ InitSession
    /\ InitKeepAliveManager(TRUE)
    /\ InitHost

----------------------------------------------------------------------------
(* KeepAliveManager.record_activity *)

SetIfCreated(event) == IF event = "none" THEN "none" ELSE "set"

RecordActivity ==
    /\ last_activity_ts' = now
    /\ next_allowed_ts' = now + threshold_seconds
    /\ schedule_event' = SetIfCreated(schedule_event)

\* `if self.keepalive_manager is not None: ...record_activity()`; make_tunnel
\* hands the manager to the tunnel only under --keepalive
TunnelRecordActivity ==
    IF keepalive_enabled
    THEN RecordActivity
    ELSE UNCHANGED <<last_activity_ts, next_allowed_ts, schedule_event>>

\* is_busy()
IsBusy == idle_event = "clear"

\* wait_until_idle blocks: the tunnel has the manager, it is enabled, and the
\* idle event exists and is not set
MustWait == keepalive_enabled /\ enabled /\ idle_event = "clear"

----------------------------------------------------------------------------
(* TunnelClient.run *)

Term(kind, code, reason, connection_duration) ==
    [kind |-> kind, code |-> code, reason |-> reason,
     duration |-> connection_duration,
     failures_before |-> consecutive_failures,
     sleep_time_before |-> sleep_time,
     attempt |-> connection_attempt]

\* index: the backoff sleeps completed since the start or since sleep_time was
\* last set back to min_sleep (every pass of the loop ends with one sleep)
StartSleep(kind, duration) ==
    /\ sleep_until' = now + duration
    /\ last_sleep' = [kind |-> kind, duration |-> duration, base |-> sleep_time,
                      attempt |-> connection_attempt,
                      index |-> IF kind = "backoff" /\ last_sleep.kind = "backoff"
                                THEN last_sleep.index + 1
                                ELSE 0]
    /\ sup_pc' = IF kind = "ratelimit" THEN "ratelimit_sleep" ELSE "backoff_sleep"

\* mutant: the session outlives the exception
SessionStaysOpen == UNCHANGED <<sessVars, websockets_open>>

\* the exception leaves _connect_and_run: its locals and its websocket are gone
SessionGone ==
    /\ sess_pc' = "closed"
    /\ websockets_open' =
           IF sess_pc = "closed" THEN websockets_open ELSE websockets_open - 1
    /\ UNCHANGED <<request_meta, body_buffer, frames_since_meta, response, sent_frames,
                   forward_count, dispatch_log, first_response>>

\* top of the while loop up to the await of connect_with_headers
LoopTop ==
    /\ sup_pc = "loop"
    /\ connection_start' = now
    /\ idempotency_cache' = CleanupBeforeRetry(idempotency_cache)
    /\ connection_attempt' = connection_attempt + 1
    /\ sup_pc' = "connecting"
    /\ UNCHANGED <<now, taskVars, osVars, sleep_time, consecutive_failures, sleep_until, exit_code,
                   last_term, last_sleep, sessVars, kaVars, websockets_open>>

\* except (ConnectionClosed, InvalidStatus) as e
HandleConnectionClosed(close_code, close_reason, connection_duration, jitter) ==
    /\ consecutive_failures' =
           FailuresAfter(consecutive_failures, connection_duration)
    /\ last_term' = Term("closed", close_code, close_reason, connection_duration)
    /\ IF IsAuthError(close_code)
       THEN /\ sup_pc' = "exited"
            /\ exit_code' = 1
            /\ UNCHANGED <<sleep_until, last_sleep>>
       ELSE /\ IF close_code = CloseCodeRateLimit
               THEN StartSleep("ratelimit", Seconds(ParseWaitSeconds(close_reason)))
               ELSE StartSleep("backoff", JitteredSleep(sleep_time, jitter))
            /\ UNCHANGED exit_code
    /\ SessionGone
    /\ UNCHANGED <<now, taskVars, osVars, sleep_time, connection_attempt, connection_start,
                   idempotency_cache>>

\* except Exception as e
HandleException(kind, code, connection_duration, jitter) ==
    /\ consecutive_failures' =
           FailuresAfter(consecutive_failures, connection_duration)
    /\ last_term' = Term(kind, code, ReasonNone, connection_duration)
    /\ StartSleep("backoff", JitteredSleep(sleep_time, jitter))
    /\ SessionGone
    /\ UNCHANGED <<now, taskVars, osVars, sleep_time, connection_attempt, connection_start,
                   exit_code, idempotency_cache>>

\* connect_with_headers returns the websocket; _connect_and_run sets up its
\* locals and enters the receive loop
ConnectOk ==
    /\ sup_pc = "connecting"
    /\ sup_pc' = "in_session"
    /\ sess_pc' = "recv"
    /\ websockets_open' = websockets_open + 1
    /\ request_meta' = <<>>
    /\ body_buffer' = <<>>
    /\ frames_since_meta' = <<>>
    /\ response' = <<>>
    /\ sent_frames' = <<>>
    /\ UNCHANGED <<now, taskVars, osVars, sleep_time, consecutive_failures, connection_attempt,
                   connection_start, sleep_until, exit_code, last_term,
                   last_sleep, idempotency_cache, forward_count, dispatch_log,
                   first_response, kaVars>>

\* connect_with_headers raises (InvalidStatus with an HTTP status, or a TCP/TLS
\* error); _connect_and_run re-raises it as ConnectionError, which run()
\* handles under except Exception. `elapsed` is the time that has passed
\* beyond the clock `now` when the handler reads time.time().
ConnectFailed(status, elapsed, jitter) ==
    /\ sup_pc = "connecting"
    /\ HandleException("connect_failed", status,
                       (now + elapsed) - connection_start, jitter)
    /\ UNCHANGED kaVars

\* the websocket raises ConnectionClosed, in the receive loop or in a send
SessionClosed(close_code, close_reason, elapsed, jitter) ==
    /\ sup_pc = "in_session"
    /\ sess_pc \in {"recv", "send"}
    /\ HandleConnectionClosed(close_code, close_reason,
                              (now + elapsed) - connection_start, jitter)
    /\ UNCHANGED kaVars

\* the session ends with any other exception (graceful close reported as
\* RuntimeError, JSON error of a meta frame, transport error)
SessionFailed(elapsed, jitter) ==
    /\ sup_pc = "in_session"
    /\ sess_pc \in {"recv", "send"}
    /\ HandleException("error", NoCode, (now + elapsed) - connection_start, jitter)
    /\ UNCHANGED kaVars

\* the task of run() is suspended in an await (the connect, the receive loop,
\* a forward, a send, one of the two sleeps), or has not run yet
AtAwait ==
    \/ sup_pc \in {"connecting", "in_session", "backoff_sleep", "ratelimit_sleep"}
    \/ (sup_pc = "loop" /\ connection_attempt = 0)

\* tunnel_task.cancel(): CancelledError is raised at the await; it is not an
\* Exception, so neither _forward_request nor _connect_and_run catches it, the
\* `async with` blocks close the HTTP client and the websocket on the way out,
\* and run() re-raises it
Cancel ==
    /\ AtAwait
    /\ sup_pc' = "cancelled"
    /\ last_term' = Term("cancelled", NoCode, ReasonNone, now - connection_start)
    /\ SessionGone
    /\ UNCHANGED <<now, taskVars, osVars, sleep_time, consecutive_failures, connection_attempt,
                   connection_start, sleep_until, exit_code, last_sleep,
                   idempotency_cache, kaVars>>

\* stop_tunnel after its cancel(): wait_for(tunnel_task, 2.0) gives up after
\* 2 s, cancels the task again and returns once the task has ended; the
\* TimeoutError is swallowed and tunnel_task = None. (When the task ends
\* within the 2 s, wait_for raises the task's CancelledError, which `except
\* Exception` does not catch: stop_tunnel is left before the assignment and
\* tunnel_task keeps the ended task.)
StopTunnelTimedOut ==
    /\ tunnel_task = "task"
    /\ sup_pc = "cancelled"
    /\ tunnel_task' = "none"
    /\ UNCHANGED <<now, supVars, idempotency_cache, sessVars, kaVars,
                   tunnels_made, websockets_open, osVars>>

\* mutant: start_tunnel does not look at tunnel_task
CanStartTunnelAlways == TRUE

\* `if tunnel_task is None:`
CanStartTunnel == tunnel_task = "none"

\* start_tunnel: a new TunnelClient (make_tunnel) and a new task for its run().
\* A websocket that a task still alive holds open stays open.
StartTunnel ==
    /\ CanStartTunnel
    /\ sup_pc # "exited"
    /\ tunnel_task' = "task"
    /\ tunnels_made' = tunnels_made + 1
    /\ sup_pc' = "loop"
    /\ sleep_time' = min_sleep
    /\ consecutive_failures' = 0
    /\ connection_attempt' = 0
    /\ idempotency_cache' = <<>>
    /\ last_sleep' = NoSleep
    /\ sess_pc' = "closed"
    /\ UNCHANGED <<now, connection_start, sleep_until, exit_code, last_term,
                   request_meta, body_buffer, frames_since_meta, response, sent_frames,
                   forward_count, dispatch_log, first_response, kaVars,
                   websockets_open, osVars>>

\* await asyncio.sleep(jittered_sleep) returns
BackoffSleepDone ==
    /\ sup_pc = "backoff_sleep"
    /\ sleep_time' = NextSleepTime(sleep_time)
    /\ sup_pc' = "loop"
    /\ UNCHANGED <<now, consecutive_failures, connection_attempt, connection_start,
                   sleep_until, exit_code, last_term, last_sleep,
                   idempotency_cache, sessVars, kaVars, hostVars>>

\* await asyncio.sleep(wait_seconds) returns
RateLimitSleepDone ==
    /\ sup_pc = "ratelimit_sleep"
    /\ sleep_time' = SleepTimeAfterRateLimit(sleep_time)
    /\ sup_pc' = "loop"
    /\ UNCHANGED <<now, consecutive_failures, connection_attempt, connection_start,
                   sleep_until, exit_code, last_term, last_sleep,
                   idempotency_cache, sessVars, kaVars, hostVars>>

----------------------------------------------------------------------------
(* The receive loop of _connect_and_run, _forward_request, _send_response *)

Chunks == {"b"}

\* a meta frame that leaves the buffer as it is
RecvMetaKeepsBuffer(meta) ==
    /\ sess_pc = "recv"
    /\ request_meta' = <<meta>>
    /\ TunnelRecordActivity
    /\ frames_since_meta' = <<>>
    /\ UNCHANGED <<now, hostVars, supVars, idempotency_cache, sess_pc, response,
                   body_buffer, sent_frames, forward_count, dispatch_log,
                   first_response, keepalive_enabled, enabled, idle_event,
                   ka_pc, ka_deadline>>

\* a text frame other than "end": request_meta = json.loads(message)
RecvMeta(meta) ==
    /\ sess_pc = "recv"
    /\ request_meta' = <<meta>>
    /\ TunnelRecordActivity
    /\ body_buffer' = <<>>
    /\ frames_since_meta' = <<>>
    /\ UNCHANGED <<now, hostVars, supVars, idempotency_cache, sess_pc, response,
                   sent_frames, forward_count, dispatch_log, first_response,
                   keepalive_enabled, enabled, idle_event, ka_pc, ka_deadline>>

\* a binary frame: body_buffer.extend(message)
RecvBinary(chunk) ==
    /\ sess_pc = "recv"
    /\ body_buffer' = Append(body_buffer, chunk)
    /\ frames_since_meta' = IF request_meta = <<>> THEN frames_since_meta
                            ELSE Append(frames_since_meta, chunk)
    /\ UNCHANGED <<now, hostVars, supVars, idempotency_cache, sess_pc, request_meta,
                   response, sent_frames, forward_count, dispatch_log,
                   first_response, kaVars>>

\* the request carries the header X-Idempotency-Key, in any case, with value k
CarriesKey(meta, k) ==
    \E i \in 1..Len(meta.headers) :
        /\ Lower(meta.headers[i][1]) = StrIdempotencyKey
        /\ meta.headers[i][2] = k

\* the followed key value the request carries, "" if none
CarriedKey(meta) ==
    IF \E k \in KeyValues : CarriesKey(meta, k)
    THEN CHOOSE k \in KeyValues : CarriesKey(meta, k)
    ELSE ""

\* meta["method"] and meta["path"] do not raise KeyError
HasDispatchFields(meta) == {"method", "path"} \subseteq DOMAIN meta

\* a text frame other than "end" that is not JSON: json.loads raises
\* JSONDecodeError, which leaves _connect_and_run and is handled by run()
RecvInvalidJson(elapsed, jitter) ==
    /\ sup_pc = "in_session"
    /\ sess_pc = "recv"
    /\ HandleException("invalid_json", NoCode,
                       (now + elapsed) - connection_start, jitter)
    /\ UNCHANGED kaVars

\* the text frame "end" for a meta without "method" or "path": record_activity,
\* then _forward_request raises KeyError before its try block; the exception
\* leaves _connect_and_run and is handled by run()
RecvEndMalformed(elapsed, jitter) ==
    /\ sup_pc = "in_session"
    /\ sess_pc = "recv"
    /\ request_meta # <<>>
    /\ ~HasDispatchFields(request_meta[1])
    /\ TunnelRecordActivity
    /\ HandleException("dispatch_error", NoCode,
                       (now + elapsed) - connection_start, jitter)
    /\ UNCHANGED <<keepalive_enabled, enabled, idle_event, ka_pc, ka_deadline>>

\* what is remembered of a dispatch: the request, the key it carries, the time
\* of the cache lookup, whether the origin is invoked, the response once there
\* is one, and the last response the origin gave to a request with that key
Dispatch(meta, forwarded, resp) ==
    [requestId |-> meta.requestId, key |-> CarriedKey(meta), time |-> now,
     attempt |-> connection_attempt, forwarded |-> forwarded, response |-> resp,
     origin |-> <<>>,
     prev |-> IF CarriedKey(meta) \in KeyValues
              THEN first_response[CarriedKey(meta)]
              ELSE <<>>]

\* the session closes at the text frame "end" received without a request
RecvEndNoRequestCloses ==
    /\ sess_pc = "recv"
    /\ request_meta = <<>>
    /\ ends_without_request' = Append(ends_without_request, forward_count)
    /\ sess_pc' = "closed"
    /\ UNCHANGED <<now, supVars, idempotency_cache, request_meta, body_buffer,
                   frames_since_meta, response, sent_frames, forward_count,
                   dispatch_log, first_response, kaVars, taskVars,
                   websockets_open, platform_system, pid_file, process, cmd,
                   black_screen, stdio_log, config, joins>>

\* the text frame "end" while request_meta is None: `if request_meta:` fails
\* and the loop goes on to the next message
RecvEndNoRequest ==
    /\ sess_pc = "recv"
    /\ request_meta = <<>>
    /\ ends_without_request' = Append(ends_without_request, forward_count)
    /\ UNCHANGED <<now, supVars, idempotency_cache, sessVars, kaVars, taskVars,
                   websockets_open, platform_system, pid_file, process, cmd,
                   black_screen, stdio_log, config, joins>>

\* the text frame "end" of a request: the dispatch up to its first await (the
\* cached response, the wait for the keepalive action to end, or the HTTP
\* exchange with the origin)
RecvEnd ==
    /\ sess_pc = "recv"
    /\ request_meta # <<>>
    /\ HasDispatchFields(request_meta[1])
    /\     LET meta == request_meta[1]
                key == FirstKeyHeader(meta.headers)
                cache == IF KeyGiven(key)
                         THEN CleanupIdempotencyCache(idempotency_cache, now)
                         ELSE idempotency_cache
                hit == KeyGiven(key) /\ CacheHit(cache, key, now)
            IN  /\ idempotency_cache' = cache
                /\ sent_frames' = <<>>
                /\ TunnelRecordActivity
                /\ IF hit
                   THEN /\ response' = <<EntryOf(cache, key.value).response>>
                        /\ sess_pc' = "send"
                        /\ forward_count' = forward_count
                   ELSE /\ response' = <<>>
                        /\ sess_pc' = IF MustWait THEN "wait_idle" ELSE "forward"
                        /\ forward_count' =
                               IF MustWait THEN forward_count ELSE forward_count + 1
                /\ dispatch_log' = <<Dispatch(meta, ~hit, response')>>
                /\ UNCHANGED <<request_meta, body_buffer, frames_since_meta, first_response,
                               keepalive_enabled, enabled, idle_event, ka_pc,
                               ka_deadline>>
    /\ UNCHANGED <<now, hostVars, supVars>>

\* wait_until_idle returns; record_activity; the HTTP exchange begins
ResumeAfterIdle ==
    /\ sess_pc = "idle_woken"
    /\ RecordActivity
    /\ sess_pc' = "forward"
    /\ forward_count' = forward_count + 1
    /\ UNCHANGED <<now, hostVars, supVars, idempotency_cache, request_meta, body_buffer, frames_since_meta,
                   response, sent_frames, dispatch_log, first_response,
                   keepalive_enabled, enabled, idle_event, ka_pc, ka_deadline>>

\* the HTTP exchange ends; the result is enriched, cached under the key and
\* returned to the receive loop
ForwardDone(outcome) ==
    /\ sess_pc = "forward"
    /\ LET key == FirstKeyHeader(request_meta[1].headers)
           carried == dispatch_log[1].key
           result == ForwardResult(outcome)
       IN  /\ idempotency_cache' =
                  IF KeyGiven(key)
                  THEN CachePut(idempotency_cache, key.value, now, result)
                  ELSE idempotency_cache
           /\ response' = <<result>>
           /\ dispatch_log' = <<[dispatch_log[1] EXCEPT !.response = <<result>>,
                                                        !.origin = <<outcome>>]>>
           /\ first_response' =
                  IF carried \in KeyValues
                  THEN [first_response EXCEPT ![carried] =
                            <<[response |-> result, time |-> now,
                               attempt |-> connection_attempt]>>]
                  ELSE first_response
    /\ sess_pc' = "send"
    /\ UNCHANGED <<now, hostVars, supVars, request_meta, body_buffer, frames_since_meta, sent_frames,
                   forward_count, kaVars>>

\* one websocket.send of _send_response; after "end" the loop resets its state
SendFrame ==
    /\ sess_pc = "send"
    /\ LET frames == ResponseFrames(request_meta[1], response[1])
           k == Len(sent_frames) + 1
       IN  /\ sent_frames' = Append(sent_frames, frames[k])
           /\ IF k = Len(frames)
              THEN /\ request_meta' = <<>>
                   /\ body_buffer' = <<>>
                   /\ frames_since_meta' = <<>>
                   /\ response' = <<>>
                   /\ sess_pc' = "recv"
              ELSE UNCHANGED <<request_meta, body_buffer, frames_since_meta, response, sess_pc>>
    /\ UNCHANGED <<now, hostVars, supVars, idempotency_cache, forward_count, dispatch_log,
                   first_response, kaVars>>

----------------------------------------------------------------------------
(* KeepAliveManager.run *)

\* run() up to the top of its loop
KaRun ==
    /\ keepalive_enabled
    /\ ka_pc = "not_started"
    /\ IF ~enabled
       THEN /\ ka_pc' = "returned"
            /\ UNCHANGED <<idle_event, schedule_event>>
       ELSE /\ idle_event' = "set"
            /\ schedule_event' = "clear"
            /\ ka_pc' = "top"
    /\ UNCHANGED <<now, hostVars, supVars, idempotency_cache, sessVars, keepalive_enabled,
                   enabled, last_activity_ts, next_allowed_ts, ka_deadline>>

\* mutant: the action starts when the timer ends, without the second test
StartActionUnchecked ==
    /\ idle_event' = "clear"
    /\ ka_pc' = "acting"

\* `if now >= max(...)`: self._idle_event.clear() and the action is handed to
\* a thread
StartActionIfEligible ==
    IF now >= EarliestAction(last_activity_ts, next_allowed_ts)
    THEN /\ idle_event' = "clear"
         /\ ka_pc' = "acting"
    ELSE /\ idle_event' = idle_event
         /\ ka_pc' = "top"

\* the top of the loop up to its next await
KaLoop ==
    /\ ka_pc = "top"
    /\ LET deadline == EarliestAction(last_activity_ts, next_allowed_ts)
           remaining == Max(0, deadline - now)
       IN  IF remaining > 0
           THEN /\ ka_pc' = "waiting"
                /\ ka_deadline' = now + remaining
                /\ UNCHANGED idle_event
           ELSE /\ StartActionIfEligible
                /\ UNCHANGED ka_deadline
    /\ UNCHANGED <<now, hostVars, supVars, idempotency_cache, sessVars, keepalive_enabled,
                   enabled, last_activity_ts, next_allowed_ts, schedule_event>>

\* asyncio.wait returns with wait_task done: clear the event and continue
KaEventWake ==
    /\ ka_pc = "waiting"
    /\ schedule_event = "set"
    /\ schedule_event' = "clear"
    /\ ka_pc' = "top"
    /\ UNCHANGED <<now, hostVars, supVars, idempotency_cache, sessVars, keepalive_enabled,
                   enabled, last_activity_ts, next_allowed_ts, idle_event,
                   ka_deadline>>

\* asyncio.wait returns with only sleep_task done
KaTimerWake ==
    /\ ka_pc = "waiting"
    /\ schedule_event # "set"
    /\ now >= ka_deadline
    /\ StartActionIfEligible
    /\ UNCHANGED <<now, hostVars, supVars, idempotency_cache, sessVars, keepalive_enabled,
                   enabled, last_activity_ts, next_allowed_ts, schedule_event,
                   ka_deadline>>

\* the finally block after _perform_keepalive_action; a request blocked in
\* wait_until_idle becomes runnable
KaActionDone(jitter) ==
    /\ ka_pc = "acting"
    /\ idle_event' = "set"
    /\ next_allowed_ts' = now + Cooldown(jitter)
    /\ schedule_event' = "set"
    /\ ka_pc' = "top"
    /\ sess_pc' = IF sess_pc = "wait_idle" THEN "idle_woken" ELSE sess_pc
    /\ UNCHANGED <<now, hostVars, supVars, idempotency_cache, request_meta, body_buffer, frames_since_meta,
                   response, sent_frames, forward_count, dispatch_log,
                   first_response, keepalive_enabled, enabled, last_activity_ts,
                   ka_deadline>>

\* stop_keepalive up to its await: keepalive_manager.enabled = False. The
\* scheduler loop tests only _stop, which stop_keepalive does not set, so the
\* wait_for(keepalive_task, 2.0) that follows always ends by cancelling the
\* task.
StopKeepalive ==
    /\ keepalive_enabled
    /\ ka_pc \in {"top", "waiting", "acting"}
    /\ enabled
    /\ enabled' = FALSE
    /\ UNCHANGED <<now, hostVars, supVars, idempotency_cache, sessVars,
                   keepalive_enabled, last_activity_ts, next_allowed_ts,
                   idle_event, schedule_event, ka_pc, ka_deadline>>

\* mutant: the cancelled scheduler leaves the idle event as it is
KaCancelledKeepsBusy(jitter) ==
    /\ ~enabled
    /\ ka_pc \in {"waiting", "acting"}
    /\ ka_pc' = "cancelled"
    /\ UNCHANGED <<now, hostVars, supVars, idempotency_cache, sessVars,
                   keepalive_enabled, enabled, last_activity_ts, next_allowed_ts,
                   idle_event, schedule_event, ka_deadline>>

\* the scheduler task is cancelled by the wait_for of stop_keepalive, at the
\* await where it is suspended: CancelledError passes `except Exception`; in
\* an action the inner finally runs (idle event set, cooldown, schedule event
\* set), and in every case the outer finally sets the idle event. A request
\* blocked in wait_until_idle becomes runnable.
KaCancelled(jitter) ==
    /\ ~enabled
    /\ ka_pc \in {"waiting", "acting"}
    /\ ka_pc' = "cancelled"
    /\ idle_event' = "set"
    /\ IF ka_pc = "acting"
       THEN /\ next_allowed_ts' = now + Cooldown(jitter)
            /\ schedule_event' = "set"
       ELSE UNCHANGED <<next_allowed_ts, schedule_event>>
    /\ sess_pc' = IF sess_pc = "wait_idle" THEN "idle_woken" ELSE sess_pc
    /\ UNCHANGED <<now, hostVars, supVars, idempotency_cache, request_meta, body_buffer, frames_since_meta,
                   response, sent_frames, forward_count, dispatch_log,
                   first_response, keepalive_enabled, enabled, last_activity_ts,
                   ka_deadline>>

----------------------------------------------------------------------------
(* The remote keepalive endpoints of the local API *)

\* POST /internal/keepalive/remote/activity
RemoteActivity(jitter) ==
    /\ last_activity_ts' = now - jitter
    /\ next_allowed_ts' = (now - jitter) + threshold_seconds
    /\ UNCHANGED <<now, hostVars, supVars, idempotency_cache, sessVars, keepalive_enabled,
                   enabled, idle_event, schedule_event, ka_pc, ka_deadline>>

\* POST /internal/keepalive/remote/enable
RemoteEnable ==
    /\ enabled' = TRUE
    /\ schedule_event' = SetIfCreated(schedule_event)
    /\ UNCHANGED <<now, hostVars, supVars, idempotency_cache, sessVars, keepalive_enabled,
                   last_activity_ts, next_allowed_ts, idle_event, ka_pc,
                   ka_deadline>>

\* POST /internal/keepalive/remote/disable
RemoteDisable ==
    /\ enabled' = FALSE
    /\ schedule_event' = SetIfCreated(schedule_event)
    /\ UNCHANGED <<now, hostVars, supVars, idempotency_cache, sessVars, keepalive_enabled,
                   last_activity_ts, next_allowed_ts, idle_event, ka_pc,
                   ka_deadline>>

----------------------------------------------------------------------------
(* The stop command and the check that opens the join command *)

\* _pidfile_looks_like_cyberdriver(info)
pidfile_looks_like_cyberdriver(file) ==
    file.kind = "pid" /\ file.argv_cyberdriver

\* the test both commands make on Windows: the image name, or the argv
\* heuristic for python and for a PID without image name
image_check(file, proc) ==
    IF proc.image # ""
    THEN \/ proc.image = "cyberdriver.exe"
         \/ (proc.image \in {"python.exe", "pythonw.exe"}
                /\ pidfile_looks_like_cyberdriver(file))
    ELSE pidfile_looks_like_cyberdriver(file)

\* _get_running_instance_pid_info() returns the info (TRUE) or None (FALSE)
get_running_instance_pid_info ==
    IF pid_file.kind # "pid" THEN FALSE
    ELSE IF ~process.running THEN FALSE
    ELSE IF platform_system = "Windows" THEN image_check(pid_file, process)
    ELSE TRUE

\* what becomes of the process once taskkill, or SIGTERM and SIGKILL, have
\* been tried on it
KillOutcomes == {"killed", "survived", "denied"}

StopResult(force, code, sent) ==
    [name |-> "stop", force |-> force, exit_code |-> code, signalled |-> sent,
     proceeds |-> FALSE]

\* stop_running_instance(force)
StopRunningInstance(force, outcome) ==
    /\ cmd.name = "none"
    /\ IF pid_file.kind = "absent"
       THEN /\ cmd' = StopResult(force, 0, FALSE)
            /\ UNCHANGED <<pid_file, process>>
       ELSE IF pid_file.kind # "pid" \/ ~process.running
       THEN /\ cmd' = StopResult(force, 0, FALSE)
            /\ pid_file' = [kind |-> "absent", argv_cyberdriver |-> FALSE]
            /\ UNCHANGED process
       ELSE IF platform_system = "Windows" /\ ~force
                  /\ ~image_check(pid_file, process)
       THEN /\ cmd' = StopResult(force, 2, FALSE)
            /\ UNCHANGED <<pid_file, process>>
       ELSE IF outcome = "killed"
       THEN /\ cmd' = StopResult(force, 0, TRUE)
            /\ process' = [process EXCEPT !.running = FALSE]
            /\ pid_file' = [kind |-> "absent", argv_cyberdriver |-> FALSE]
       ELSE /\ cmd' = StopResult(force, 1, TRUE)
            /\ UNCHANGED <<pid_file, process>>
    /\ UNCHANGED <<now, supVars, idempotency_cache, sessVars, kaVars, taskVars,
                   websockets_open, platform_system, auxVars>>

\* main for `join` (not the detached child): exit 0 when an instance is
\* found; otherwise run_join writes the PID file of this process and starts
\* the tunnel
JoinCommand ==
    /\ cmd.name = "none"
    /\ IF get_running_instance_pid_info
       THEN /\ cmd' = [name |-> "join", force |-> FALSE, exit_code |-> 0,
                       signalled |-> FALSE, proceeds |-> FALSE]
            /\ UNCHANGED <<pid_file, process, taskVars>>
       ELSE /\ cmd' = [name |-> "join", force |-> FALSE, exit_code |-> 0,
                       signalled |-> FALSE, proceeds |-> TRUE]
            /\ pid_file' = [kind |-> "pid", argv_cyberdriver |-> TRUE]
            /\ process' = [running |-> TRUE, image |-> "python",
                           cyberdriver |-> TRUE]
            /\ tunnel_task' = "task"
            /\ tunnels_made' = tunnels_made + 1
    /\ UNCHANGED <<now, supVars, idempotency_cache, sessVars, kaVars,
                   websockets_open, platform_system, auxVars>>

----------------------------------------------------------------------------
(* BlackScreenRecoveryManager and its task in run_join *)

\* what the tunnel, the scheduler and the clock hold
tunnelVars == <<now, supVars, idempotency_cache, sessVars, kaVars, taskVars,
                websockets_open>>

\* BlackScreenRecoveryManager.__init__(enabled = the --black-screen-recovery
\* flag): enabled only on Windows
BlackScreenManager(system, requested) ==
    [requested |-> requested,
     enabled |-> IF system # "Windows" THEN FALSE ELSE requested,
     stop |-> FALSE, pc |-> "none", captures |-> 0, switches |-> 0]

\* start_black_screen_recovery_if_enabled: the task is created when the flag
\* was given and no task exists, and the manager is enabled
StartBlackScreenRecovery ==
    /\ black_screen.requested
    /\ black_screen.pc = "none"
    /\ black_screen' = [black_screen EXCEPT !.enabled = TRUE, !.pc = "created"]
    /\ UNCHANGED <<tunnelVars, platform_system, pid_file, process, cmd,
                   ends_without_request, stdio_log, config, joins>>

\* run() starts: it returns when the manager is not enabled, else it sleeps
BlackScreenRun ==
    /\ black_screen.pc = "created"
    /\ black_screen' =
           [black_screen EXCEPT
                !.pc = IF black_screen.enabled THEN "sleep" ELSE "returned"]
    /\ UNCHANGED <<tunnelVars, platform_system, pid_file, process, cmd,
                   ends_without_request, stdio_log, config, joins>>

\* a sleep of run() ends: _check_and_recover captures the screen, unless the
\* manager was stopped or disabled, which ends the loop
BlackScreenCheck(is_black) ==
    /\ black_screen.pc = "sleep"
    /\ black_screen' =
           IF black_screen.stop \/ ~black_screen.enabled
           THEN [black_screen EXCEPT !.pc = "returned"]
           ELSE [black_screen EXCEPT
                     !.captures = @ + 1,
                     !.pc = IF is_black THEN "confirm" ELSE "sleep"]
    /\ UNCHANGED <<tunnelVars, platform_system, pid_file, process, cmd,
                   ends_without_request, stdio_log, config, joins>>

\* five seconds after a black capture: the screen is captured again, and
\* _execute_console_switch, which acts only on Windows, is called when it is
\* still black
BlackScreenConfirm(still_black) ==
    /\ black_screen.pc = "confirm"
    /\ black_screen' =
           [black_screen EXCEPT
                !.captures = @ + 1,
                !.switches = IF still_black /\ platform_system = "Windows"
                             THEN @ + 1 ELSE @,
                !.pc = "sleep"]
    /\ UNCHANGED <<tunnelVars, platform_system, pid_file, process, cmd,
                   ends_without_request, stdio_log, config, joins>>

\* stop_black_screen_recovery: stop(), then the task is awaited for two
\* seconds and cancelled (every sleep of run() is longer)
StopBlackScreenRecovery ==
    /\ black_screen.pc # "none"
    /\ black_screen' = [black_screen EXCEPT !.stop = TRUE, !.pc = "none"]
    /\ UNCHANGED <<tunnelVars, platform_system, pid_file, process, cmd,
                   ends_without_request, stdio_log, config, joins>>

----------------------------------------------------------------------------
(* _SizeCappedTextWriter *)

STDIO_LOG_MAX_BYTES == 10 * 1024 * 1024

\* the bytes of "[<isoformat>] Log truncated (max 10MB)\n"
TruncatedHeaderBytes == 54

\* the bytes of "\n[<isoformat>] Log chunk truncated to fit 10MB cap\n"
ChunkMarkerBytes == 66

\* the file is opened in text mode: on Windows every "\n" written becomes two
\* bytes in the file
NewlineBytes(system, newlines) == IF system = "Windows" THEN newlines ELSE 0

\* _open_append: the tracked size is the size of the file
OpenAppend(log) == [log EXCEPT !.open = TRUE, !.size_bytes = log.file_bytes]

\* _truncate_and_reopen: the file is rewritten with the header line
TruncateAndReopen(system, log) ==
    OpenAppend([log EXCEPT
                    !.file_bytes = TruncatedHeaderBytes + NewlineBytes(system, 1),
                    !.truncated = @ + 1])

\* the text is written whole
UntrimmedLength(bytes_len, remaining, cut) == bytes_len

\* the bytes of the text that is written: a text longer than the remaining
\* space is cut to its tail, less the bytes of a character split by the cut
TrimmedLength(bytes_len, remaining, cut) ==
    IF remaining # 0 /\ bytes_len > remaining
    THEN Max(0, remaining - cut)
    ELSE bytes_len

\* write(s) for a text of w.bytes bytes that ends with a newline or not
WriteLog(system, log, w, cut) ==
    LET start == [log EXCEPT !.asked = w.bytes, !.truncated = 0]
        first == IF start.size_bytes + w.bytes > STDIO_LOG_MAX_BYTES
                 THEN TruncateAndReopen(system, start)
                 ELSE start
        ready == IF Max(0, STDIO_LOG_MAX_BYTES - first.size_bytes) <= 0
                 THEN TruncateAndReopen(system, first)
                 ELSE first
        remaining == Max(0, STDIO_LOG_MAX_BYTES - ready.size_bytes)
        trimmed == remaining # 0 /\ w.bytes > remaining
        bytes_len == TrimmedLength(w.bytes, remaining, cut)
        newlines == (IF trimmed /\ ChunkMarkerBytes < remaining THEN 2 ELSE 0)
                    + (IF w.newline /\ bytes_len > 0 THEN 1 ELSE 0)
    IN  [ready EXCEPT
             !.file_bytes = @ + bytes_len + NewlineBytes(system, newlines),
             !.size_bytes = Min(STDIO_LOG_MAX_BYTES, @ + bytes_len),
             !.writes = @ + 1,
             !.written_since_open = TRUE,
             !.base = ready.size_bytes,
             !.written = bytes_len]

\* sys.stdout.write / sys.stderr.write of the detached process
LogWrite(w, cut) ==
    /\ stdio_log.open
    /\ stdio_log' = WriteLog(platform_system, stdio_log, w, cut)
    /\ UNCHANGED <<tunnelVars, platform_system, pid_file, process, cmd,
                   ends_without_request, black_screen, config, joins>>

\* the process is started again: a new writer is constructed over the file
LogRestart ==
    /\ stdio_log.open
    /\ stdio_log.written_since_open
    /\ stdio_log' = OpenAppend([stdio_log EXCEPT !.written_since_open = FALSE])
    /\ UNCHANGED <<tunnelVars, platform_system, pid_file, process, cmd,
                   ends_without_request, black_screen, config, joins>>

----------------------------------------------------------------------------
(* get_config *)

\* Fingerprints are numbered: 0 is a value that Python takes as false (the
\* empty string, null), 1 is the fingerprint a file holds at the start, and
\* the n-th uuid4 of this history is 1 + n. Versions are numbered from 1; the
\* version 0 stands for a file without "version".

\* str(uuid.uuid4()): a value that no file and no earlier call has held
FreshFingerprint(cfg) == 2 + cfg.minted

\* a fingerprint is made for every file that is written
FingerprintAlwaysFresh(cfg, existing) == FreshFingerprint(cfg)

\* existing_fingerprint or str(uuid.uuid4()); existing is <<>> for None
FingerprintToWrite(cfg, existing) ==
    IF existing # <<>> /\ existing[1] # 0
    THEN existing[1]
    ELSE FreshFingerprint(cfg)

\* should_create: the file is written with the running version and returned
CreateConfig(cfg, existing) ==
    LET fingerprint == FingerprintToWrite(cfg, existing)
    IN  [cfg EXCEPT
             !.file = [kind |-> "object", version |-> cfg.VERSION,
                       has_fingerprint |-> TRUE, fingerprint |-> fingerprint],
             !.calls = @ + 1,
             !.returned = fingerprint,
             !.raised = FALSE,
             !.rewrote = TRUE,
             !.minted = IF fingerprint = FreshFingerprint(cfg) THEN @ + 1 ELSE @]

\* get_config()
GetConfigResult(cfg) ==
    LET data == cfg.file
    IN  IF data.kind = "absent"
        THEN CreateConfig(cfg, <<>>)
        ELSE IF data.kind = "not_json"
        THEN CreateConfig(cfg, <<>>)
        ELSE IF data.kind = "not_object"
        THEN [cfg EXCEPT !.calls = @ + 1, !.raised = TRUE, !.rewrote = FALSE]
        ELSE IF data.version # cfg.VERSION
        THEN CreateConfig(cfg, IF data.has_fingerprint
                               THEN <<data.fingerprint>> ELSE <<>>)
        ELSE IF data.has_fingerprint
        THEN [cfg EXCEPT !.calls = @ + 1, !.returned = data.fingerprint,
                         !.raised = FALSE, !.rewrote = FALSE]
        ELSE CreateConfig(cfg, <<>>)

GetConfig ==
    /\ config' = GetConfigResult(config)
    /\ UNCHANGED <<tunnelVars, platform_system, pid_file, process, cmd,
                   ends_without_request, black_screen, stdio_log, joins>>

\* a later release is installed: VERSION is another string
Upgrade ==
    /\ config' = [config EXCEPT !.VERSION = @ + 1]
    /\ UNCHANGED <<tunnelVars, platform_system, pid_file, process, cmd,
                   ends_without_request, black_screen, stdio_log, joins>>

\* config.json is deleted, or replaced by something that is not JSON
DamageConfigFile(kind) ==
    /\ config.file.kind = "object"
    /\ config' = [config EXCEPT !.file = [NoConfigFile EXCEPT !.kind = kind]]
    /\ UNCHANGED <<tunnelVars, platform_system, pid_file, process, cmd,
                   ends_without_request, black_screen, stdio_log, joins>>

----------------------------------------------------------------------------
(* Two `join` commands run at the same time *)

JoinProcs == {1, 2}

\* main of process p (not a detached child) looks for a running instance:
\* it exits 0 when it finds one, else it goes on
JoinCheck(p) ==
    /\ joins # <<>>
    /\ joins[p] = "start"
    /\ joins' = [joins EXCEPT
                     ![p] = IF get_running_instance_pid_info
                            THEN "exited" ELSE "checked"]
    /\ UNCHANGED <<tunnelVars, platform_system, pid_file, process, cmd,
                   ends_without_request, black_screen, stdio_log, config>>

\* run_join of process p (on Windows, of the detached child it launched):
\* write_pid_info replaces the PID file with the PID and argv of this process,
\* then the local server and the tunnel are started
JoinWrite(p) ==
    /\ joins # <<>>
    /\ joins[p] = "checked"
    /\ pid_file' = [kind |-> "pid", argv_cyberdriver |-> TRUE]
    /\ process' = [running |-> TRUE,
                   image |-> IF platform_system = "Windows"
                             THEN "cyberdriver.exe" ELSE "",
                   cyberdriver |-> TRUE]
    /\ joins' = [joins EXCEPT ![p] = "running"]
    /\ UNCHANGED <<tunnelVars, platform_system, cmd, ends_without_request,
                   black_screen, stdio_log, config>>

----------------------------------------------------------------------------
(* Time *)

\* a coroutine is runnable: the clock does not move before it has run
Runnable ==
    \/ sup_pc = "loop"
    \/ sup_pc \in {"backoff_sleep", "ratelimit_sleep"} /\ now >= sleep_until
    \/ sess_pc = "idle_woken"
    \/ keepalive_enabled /\ ka_pc \in {"not_started", "top"}
    \/ ka_pc = "waiting" /\ (schedule_event = "set" \/ now >= ka_deadline)

\* the timers that are armed
Deadlines ==
    (IF sup_pc \in {"backoff_sleep", "ratelimit_sleep"} THEN {sleep_until} ELSE {})
    \cup (IF ka_pc = "waiting" THEN {ka_deadline} ELSE {})

\* time passes up to the next timer, at most TickStep at once
Tick ==
    /\ sup_pc # "exited"
    /\ ~Runnable
    /\ LET next == {now + TickStep} \cup {d \in Deadlines : d > now}
       IN  now' = CHOOSE t \in next : \A u \in next : t <= u
    /\ now' <= (IF keepalive_enabled THEN MaxKeepaliveTime ELSE MaxTime)
    /\ UNCHANGED <<supVars, idempotency_cache, sessVars, kaVars, hostVars>>

----------------------------------------------------------------------------
(* Specifications *)

\* the supervisor alone: every way an attempt can end, the durations read by
\* the handlers given as inputs
NextSup ==
    \/ (connection_attempt < MaxAttempts /\ LoopTop)
    \/ ConnectOk
    \/ \E status \in ConnectFailures, elapsed \in DurationChoices,
          jitter \in JitterChoices :
           ConnectFailed(status, elapsed, jitter)
    \/ \E ev \in CloseEvents, elapsed \in DurationChoices, jitter \in JitterChoices :
           SessionClosed(ev[1], ev[2], elapsed, jitter)
    \/ \E elapsed \in DurationChoices, jitter \in JitterChoices :
           SessionFailed(elapsed, jitter)
    \/ BackoffSleepDone
    \/ RateLimitSleepDone

SpecSup == Init /\ [][NextSup]_vars

\* asyncio.sleep returns and the while loop goes on: a sleep that has been
\* started ends, and the loop top that follows it runs
SpecSupLive ==
    /\ Init
    /\ [][NextSup]_vars
    /\ WF_vars(BackoffSleepDone)
    /\ WF_vars(RateLimitSleepDone)
    /\ WF_vars(connection_attempt < MaxAttempts /\ LoopTop)

\* sessions with their traffic, without --keepalive, on a clock
NextTunnel ==
    \/ (connection_attempt < MaxTunnelAttempts /\ LoopTop)
    \/ ConnectOk
    \/ \E ev \in TunnelCloseEvents : SessionClosed(ev[1], ev[2], 0, 0)
    \/ (now >= sleep_until /\ BackoffSleepDone)
    \/ \E meta \in Metas : (forward_count < MaxRequests /\ RecvMeta(meta))
    \/ \E chunk \in Chunks : (Len(body_buffer) < MaxBodyFrames /\ RecvBinary(chunk))
    \/ RecvEnd
    \/ \E outcome \in OriginOutcomes : ForwardDone(outcome)
    \/ SendFrame
    \/ Tick

SpecTunnel == Init /\ [][NextTunnel]_vars

\* sessions with well-formed and malformed frames and failing forwards,
\* without --keepalive; the durations read by the handlers are inputs
NextFrames ==
    \/ (connection_attempt < MaxTunnelAttempts /\ LoopTop)
    \/ ConnectOk
    \/ BackoffSleepDone
    \/ \E meta \in FrameMetas : (forward_count < MaxRequests /\ RecvMeta(meta))
    \/ \E elapsed \in FrameDurations, jitter \in JitterChoices :
           RecvInvalidJson(elapsed, jitter)
    \/ RecvEnd
    \/ \E elapsed \in FrameDurations, jitter \in JitterChoices :
           RecvEndMalformed(elapsed, jitter)
    \/ \E outcome \in FrameOutcomes : ForwardDone(outcome)
    \/ SendFrame

SpecFrames == Init /\ [][NextFrames]_vars

\* one session that serves a burst of requests with pairwise different keys,
\* all within the lifetime of a cache entry
NextCache ==
    \/ (connection_attempt = 0 /\ LoopTop)
    \/ ConnectOk
    \/ (forward_count < MaxCacheRequests /\ RecvMeta(MetaFresh(forward_count + 1)))
    \/ RecvEnd
    \/ ForwardDone(OutcomePong)
    \/ SendFrame

SpecCache == Init /\ [][NextCache]_vars

\* sessions that answer keyed requests and their replays, ended in every way
\* the supervisor retries, short-lived and long-lived; the durations read by
\* the handlers are inputs, and all of it happens within the lifetime of a
\* cache entry
NextReconnect ==
    \/ (connection_attempt < MaxReconnects /\ LoopTop)
    \/ ConnectOk
    \/ \E elapsed \in FrameDurations, jitter \in JitterChoices :
           ConnectFailed(NoCode, elapsed, jitter)
    \/ \E ev \in ReconnectCloseEvents, elapsed \in FrameDurations,
          jitter \in JitterChoices :
           SessionClosed(ev[1], ev[2], elapsed, jitter)
    \/ \E elapsed \in FrameDurations, jitter \in JitterChoices :
           SessionFailed(elapsed, jitter)
    \/ BackoffSleepDone
    \/ RateLimitSleepDone
    \/ \E meta \in {MetaKeyed, MetaReplay} :
           (forward_count < MaxRequests /\ RecvMeta(meta))
    \/ RecvEnd
    \/ ForwardDone(OutcomePong)
    \/ SendFrame

SpecReconnect == Init /\ [][NextReconnect]_vars

\* one session whose requests are answered, by the origin or from the cache,
\* with bodies of every length
NextChunks ==
    \/ (connection_attempt = 0 /\ LoopTop)
    \/ ConnectOk
    \/ \E meta \in {MetaPlain, MetaKeyed} :
           (forward_count < MaxRequests /\ RecvMeta(meta))
    \/ RecvEnd
    \/ \E outcome \in ChunkOutcomes : ForwardDone(outcome)
    \/ SendFrame

SpecChunks == Init /\ [][NextChunks]_vars

\* sessions and their retries on a clock, without --keepalive, with the
\* supervisor task cancelled at any of its awaits
NextCancel ==
    \/ (connection_attempt < MaxTunnelAttempts /\ LoopTop)
    \/ ConnectOk
    \/ ConnectFailed(NoCode, 0, 0)
    \/ \E ev \in ReconnectCloseEvents : SessionClosed(ev[1], ev[2], 0, 0)
    \/ (now >= sleep_until /\ BackoffSleepDone)
    \/ (now >= sleep_until /\ RateLimitSleepDone)
    \/ (forward_count < MaxRequests /\ RecvMeta(MetaPlain))
    \/ RecvEnd
    \/ ForwardDone(OutcomePong)
    \/ SendFrame
    \/ Cancel
    \/ Tick

SpecCancel == Init /\ [][NextCancel]_vars

\* the interactive join: the tunnel is disabled (stop_tunnel) at any moment
\* and enabled again (start_tunnel); without --keepalive the other steps of
\* the two commands do nothing. No clock: a sleep ends whenever it ends.
NextInteractive ==
    \/ (connection_attempt < MaxTunnelAttempts /\ LoopTop)
    \/ ConnectOk
    \/ ConnectFailed(NoCode, 0, 0)
    \/ \E ev \in ReconnectCloseEvents : SessionClosed(ev[1], ev[2], 0, 0)
    \/ BackoffSleepDone
    \/ RateLimitSleepDone
    \/ (forward_count < MaxRequests /\ RecvMeta(MetaPlain))
    \/ RecvEnd
    \/ ForwardDone(OutcomePong)
    \/ SendFrame
    \/ Cancel
    \/ StopTunnelTimedOut
    \/ (tunnels_made < MaxTunnels /\ StartTunnel)

SpecInteractive == Init /\ [][NextInteractive]_vars

\* one session under --keepalive with the scheduler and the remote endpoints;
\* the scheduler task, created right after the tunnel task, reaches its loop
\* before the connection is established
NextKeepalive ==
    \/ (connection_attempt = 0 /\ LoopTop)
    \/ (ka_pc # "not_started" /\ ConnectOk)
    \/ (forward_count < MaxRequests /\ RecvMeta(MetaPlain))
    \/ RecvEnd
    \/ ResumeAfterIdle
    \/ ForwardDone(OutcomePong)
    \/ SendFrame
    \/ KaRun
    \/ KaLoop
    \/ KaEventWake
    \/ KaTimerWake
    \/ \E jitter \in CooldownJitterChoices : KaActionDone(jitter)
    \/ \E jitter \in ActivityJitterChoices : RemoteActivity(jitter)
    \/ RemoteEnable
    \/ RemoteDisable
    \/ Tick

SpecKeepalive == InitKeepalive /\ [][NextKeepalive]_vars

\* one session of a join without --keepalive, on a clock, with the remote
\* enable and disable endpoints of its local API. run_join makes the manager
\* and publishes it in app.state in every join, but creates the scheduler task
\* only under --keepalive (start_keepalive_if_enabled) and hands the manager
\* to the tunnel only under --keepalive (make_tunnel): no step of
\* KeepAliveManager.run exists in this process.
NextRemote ==
    \/ (connection_attempt = 0 /\ LoopTop)
    \/ ConnectOk
    \/ (forward_count < MaxRequests /\ RecvMeta(MetaPlain))
    \/ RecvEnd
    \/ ForwardDone(OutcomePong)
    \/ SendFrame
    \/ RemoteEnable
    \/ RemoteDisable
    \/ Tick

SpecRemote == Init /\ [][NextRemote]_vars

\* one session under --keepalive that serves a keyed request and its replays
\* while the scheduler runs its actions; keepalive stays enabled
NextKeepaliveCache ==
    \/ (connection_attempt = 0 /\ LoopTop)
    \/ (ka_pc # "not_started" /\ ConnectOk)
    \/ (forward_count < MaxRequests /\ RecvMeta(MetaKeyed))
    \/ RecvEnd
    \/ ResumeAfterIdle
    \/ ForwardDone(OutcomePong)
    \/ SendFrame
    \/ KaRun
    \/ KaLoop
    \/ KaEventWake
    \/ KaTimerWake
    \/ KaActionDone(0)
    \/ Tick

SpecKeepaliveCache == InitKeepalive /\ [][NextKeepaliveCache]_vars

\* one session under --keepalive whose scheduler runs its actions until
\* keepalive is stopped (the interactive disable, or shutdown)
NextRelease ==
    \/ (connection_attempt = 0 /\ LoopTop)
    \/ (ka_pc # "not_started" /\ ConnectOk)
    \/ (forward_count < MaxRequests /\ RecvMeta(MetaPlain))
    \/ RecvEnd
    \/ ResumeAfterIdle
    \/ ForwardDone(OutcomePong)
    \/ SendFrame
    \/ KaRun
    \/ KaLoop
    \/ KaEventWake
    \/ KaTimerWake
    \/ KaActionDone(0)
    \/ StopKeepalive
    \/ KaCancelled(0)
    \/ Tick

\* _perform_keepalive_action returns or raises: the thread it runs in ends.
\* A coroutine that has been woken runs: the request resumes after
\* wait_until_idle, and the cancellation that stop_keepalive has asked for is
\* delivered.
SpecRelease ==
    /\ InitKeepalive
    /\ [][NextRelease]_vars
    /\ WF_vars(KaActionDone(0))
    /\ WF_vars(KaCancelled(0))
    /\ WF_vars(ResumeAfterIdle)

\* one session on a clock that serves requests under two keys and their
\* replays, at every age of the entries
NextReplay ==
    \/ (connection_attempt = 0 /\ LoopTop)
    \/ ConnectOk
    \/ \E meta \in {MetaKeyed, MetaFresh(1)} :
           /\ \/ forward_count < MaxRequests
              \/ HasKey(idempotency_cache, FirstKeyHeader(meta.headers).value)
           /\ RecvMeta(meta)
    \/ RecvEnd
    \/ ForwardDone(OutcomePong)
    \/ SendFrame
    \/ Tick

SpecReplay == Init /\ [][NextReplay]_vars

\* the binary frames a peer sends, and how many the buffer is let to hold
BodyChunks == {"a", "b"}

MaxBufferedFrames == 2

MaxStrayEnds == 1

\* one session that receives metas, binary frames and "end" frames in any
\* order: binary frames before a meta, a meta that replaces an open request,
\* an "end" with no request
NextBody ==
    \/ (connection_attempt = 0 /\ LoopTop)
    \/ ConnectOk
    \/ (forward_count < MaxRequests /\ RecvMeta(MetaPlain))
    \/ \E chunk \in BodyChunks :
           (Len(body_buffer) < MaxBufferedFrames /\ RecvBinary(chunk))
    \/ (Len(ends_without_request) < MaxStrayEnds /\ RecvEndNoRequest)
    \/ RecvEnd
    \/ ForwardDone(OutcomePong)
    \/ SendFrame
    \/ Tick

SpecBody == Init /\ [][NextBody]_vars

\* a process in which nothing has been started yet
InitProcess ==
    /\ now = 0
    /\ InitSup
    /\ InitSession
    /\ InitKeepAliveManager(FALSE)
    /\ tunnel_task = "none"
    /\ tunnels_made = 0
    /\ websockets_open = 0
    /\ pid_file = [kind |-> "absent", argv_cyberdriver |-> FALSE]
    /\ process = [running |-> FALSE, image |-> "", cyberdriver |-> FALSE]
    /\ cmd = NoCmd

MaxCaptures == 5

\* run_join on any platform, with or without --black-screen-recovery: the
\* manager is made, the task is started, checks the screen on its cadence,
\* and is stopped and started again by the interactive commands
InitWatchdog ==
    /\ InitProcess
    /\ platform_system \in Platforms
    /\ \E requested \in BOOLEAN :
           black_screen = BlackScreenManager(platform_system, requested)
    /\ ends_without_request = <<>>
    /\ stdio_log = NoLog
    /\ config = NoConfig
    /\ joins = NoJoins

NextWatchdog ==
    \/ StartBlackScreenRecovery
    \/ BlackScreenRun
    \/ \E is_black \in BOOLEAN :
           (black_screen.captures < MaxCaptures /\ BlackScreenCheck(is_black))
    \/ \E still_black \in BOOLEAN : BlackScreenConfirm(still_black)
    \/ StopBlackScreenRecovery

SpecWatchdog == InitWatchdog /\ [][NextWatchdog]_vars

MaxWrites == 3

\* the sizes of the log file that a first writer finds
ExistingLogBytes == {0, 100, STDIO_LOG_MAX_BYTES, STDIO_LOG_MAX_BYTES + 1000}

\* the texts written: empty, short, half the cap, around the cap
WriteChoices ==
    { [bytes |-> n, newline |-> nl] :
          n \in {0, 1, STDIO_LOG_MAX_BYTES \div 2, STDIO_LOG_MAX_BYTES - 1,
                 STDIO_LOG_MAX_BYTES, STDIO_LOG_MAX_BYTES + 1},
          nl \in BOOLEAN }

\* the bytes of a multi-byte character that the cut of a tail can split
CutChoices == {0, 3}

\* a process whose output goes through the writer, over a log file of any
\* size, on any platform
InitLog ==
    /\ InitProcess
    /\ platform_system \in Platforms
    /\ \E existing \in ExistingLogBytes :
           stdio_log = OpenAppend([NoLog EXCEPT !.file_bytes = existing])
    /\ ends_without_request = <<>>
    /\ black_screen = NoWatchdog
    /\ config = NoConfig
    /\ joins = NoJoins

NextLog ==
    \/ \E w \in WriteChoices, cut \in CutChoices :
           (stdio_log.writes < MaxWrites /\ LogWrite(w, cut))
    \/ LogRestart

SpecLog == InitLog /\ [][NextLog]_vars

MaxVersions == 3

MaxConfigCalls == 4

\* config.json when the program is first run: absent, not JSON, JSON that is
\* not an object, or an object with or without "version" (of this release or
\* of an older one) and "fingerprint"
ConfigFiles ==
    { [NoConfigFile EXCEPT !.kind = k] : k \in {"absent", "not_json", "not_object"} }
    \cup { [kind |-> "object", version |-> v, has_fingerprint |-> FALSE,
            fingerprint |-> 0] : v \in {0, 1, 2} }
    \cup { [kind |-> "object", version |-> v, has_fingerprint |-> TRUE,
            fingerprint |-> f] : v \in {0, 1, 2}, f \in {0, 1} }

\* get_config called again and again, across upgrades and damage to the file
InitConfig ==
    /\ InitProcess
    /\ platform_system = "Linux"
    /\ \E file \in ConfigFiles :
           config = [NoConfig EXCEPT !.file = file, !.VERSION = 2]
    /\ ends_without_request = <<>>
    /\ black_screen = NoWatchdog
    /\ stdio_log = NoLog
    /\ joins = NoJoins

NextConfig ==
    \/ (config.calls < MaxConfigCalls /\ GetConfig)
    \/ (config.VERSION < MaxVersions /\ Upgrade)
    \/ \E kind \in {"absent", "not_json"} :
           (config.calls < MaxConfigCalls /\ config.minted < 2
                /\ DamageConfigFile(kind))

SpecConfig == InitConfig /\ [][NextConfig]_vars

\* two join commands are started on a host in any condition; their steps
\* interleave in every order
InitJoinRace ==
    /\ now = 0
    /\ InitSup
    /\ InitSession
    /\ InitKeepAliveManager(FALSE)
    /\ tunnel_task = "none"
    /\ tunnels_made = 0
    /\ websockets_open = 0
    /\ platform_system \in Platforms
    /\ pid_file \in PidFiles
    /\ process \in Processes
    /\ cmd = NoCmd
    /\ ends_without_request = <<>>
    /\ black_screen = NoWatchdog
    /\ stdio_log = NoLog
    /\ config = NoConfig
    /\ joins = [p \in JoinProcs |-> "start"]

NextJoinRace ==
    \/ \E p \in JoinProcs : JoinCheck(p)
    \/ \E p \in JoinProcs : JoinWrite(p)

SpecJoinRace == InitJoinRace /\ [][NextJoinRace]_vars

\* one stop or join command on a host in any condition
NextCommand ==
    \/ \E force \in BOOLEAN, outcome \in KillOutcomes :
           StopRunningInstance(force, outcome)
    \/ JoinCommand

SpecCommand == InitCommand /\ [][NextCommand]_vars

----------------------------------------------------------------------------
(* Properties of the sessions *)

\* C1: the frames sent for a request are one meta frame with the requestId of
\* the request, then binary frames of at most 16384 bytes each, then one "end"
\* that closes the response; nothing else is sent for it.
C1_ResponseFraming ==
    (sess_pc \in {"send", "recv"} /\ sent_frames # <<>>) =>
        LET n == Len(sent_frames)
        IN  /\ sent_frames[1].type = "meta"
            /\ sent_frames[1].requestId = dispatch_log[1].requestId
            /\ \A k \in 2..n : sent_frames[k].type \in {"binary", "end"}
            /\ \A k \in 1..n :
                   sent_frames[k].type = "binary" =>
                       /\ sent_frames[k].hi - sent_frames[k].lo <= 16384
                       /\ sent_frames[k].hi - sent_frames[k].lo >= 1
            /\ \A k \in 1..n : sent_frames[k].type = "end" => k = n
            /\ (sess_pc = "recv") = (sent_frames[n].type = "end")

\* a request with a body of 16385 bytes has been answered: meta, a full chunk,
\* a chunk of one byte, end
C1_Witness ==
    /\ sess_pc = "recv"
    /\ Len(sent_frames) = 4
    /\ sent_frames[2].hi - sent_frames[2].lo = 16384
    /\ sent_frames[3].hi - sent_frames[3].lo = 1
    /\ sent_frames[4].type = "end"

\* the request being dispatched carries a key that a request answered by the
\* origin less than 60 s before the lookup carried too
Replayed ==
    /\ dispatch_log # <<>>
    /\ dispatch_log[1].prev # <<>>
    /\ dispatch_log[1].time - dispatch_log[1].prev[1].time < Seconds(60)

\* the origin is not invoked and the response is the remembered one
ServedAsBefore ==
    /\ ~dispatch_log[1].forwarded
    /\ dispatch_log[1].response = <<dispatch_log[1].prev[1].response>>

\* C2: a request with X-Idempotency-Key = K replayed within 60 s of
\* the first one in the same process is not forwarded again and gets the
\* status, headers and body of the first response.
C2_ReplaySameProcess == Replayed => ServedAsBefore

\* what the cache does guarantee: within one connection attempt, a request
\* with a non-empty X-Idempotency-Key = K (name in any case) replayed less than
\* 60 s after the response to the first one was stored is not forwarded again
\* and gets the status, headers and body of the first response.
C2_ReplaySameSession ==
    (Replayed /\ dispatch_log[1].prev[1].attempt = dispatch_log[1].attempt)
        => ServedAsBefore

\* r2, with the header name in lower case, has been answered from the cache
\* 30 s after the origin answered the only request forwarded so far
C2_Witness ==
    /\ Replayed
    /\ dispatch_log[1].requestId = "r2"
    /\ dispatch_log[1].time - dispatch_log[1].prev[1].time = Seconds(30)
    /\ ~dispatch_log[1].forwarded
    /\ forward_count = 1
    /\ sess_pc = "recv"
    /\ sent_frames # <<>>

\* the request being dispatched carries a key whose last response was stored
\* more than 60 s before the lookup
ArrivedAfterExpiry ==
    /\ dispatch_log # <<>>
    /\ dispatch_log[1].prev # <<>>
    /\ dispatch_log[1].time - dispatch_log[1].prev[1].time > Seconds(60)

\* C19: a request with key K that arrives more than 60 s after the response
\* for K was cached is forwarded to the origin again, and the new response
\* becomes the cache entry of K.
C19_ExpiredForwardedAgain ==
    ArrivedAfterExpiry =>
        /\ dispatch_log[1].forwarded
        /\ (dispatch_log[1].response # <<>>
              /\ dispatch_log[1].attempt = connection_attempt) =>
               /\ HasKey(idempotency_cache, dispatch_log[1].key)
               /\ EntryOf(idempotency_cache, dispatch_log[1].key).response
                      = dispatch_log[1].response[1]
               /\ EntryOf(idempotency_cache, dispatch_log[1].key).ts
                      >= dispatch_log[1].time
               /\ Cardinality({i \in 1..Len(idempotency_cache) :
                       idempotency_cache[i].key = dispatch_log[1].key}) = 1

\* the request came 90 s after the first response was stored; the origin has
\* answered again and the answer has been sent
C19_Witness ==
    /\ ArrivedAfterExpiry
    /\ dispatch_log[1].time - dispatch_log[1].prev[1].time = Seconds(90)
    /\ dispatch_log[1].response # <<>>
    /\ dispatch_log[1].attempt = connection_attempt
    /\ forward_count = 2
    /\ sess_pc = "recv"

\* C20: in every reachable state the idempotency cache holds at most 1000
\* entries.
C20_CacheAtMost1000 == Len(idempotency_cache) <= 1000

\* the origin's answer (or the 500 made of a transport error) to a request
\* with a followed key has just been returned and has a status of 400 or more
ErrorJustStored ==
    /\ sess_pc = "send"
    /\ sent_frames = <<>>
    /\ dispatch_log[1].forwarded
    /\ dispatch_log[1].key \in KeyValues
    /\ dispatch_log[1].response[1].status >= 400

\* the request being dispatched replays, in the same session and less than
\* 60 s later, a key whose last response had a status of 400 or more
ErrorReplayed ==
    /\ Replayed
    /\ dispatch_log[1].prev[1].attempt = dispatch_log[1].attempt
    /\ dispatch_log[1].prev[1].response.status >= 400

C25_CancelStops ==
    /\ [](sup_pc = "cancelled" => sess_pc = "closed")
    /\ [][sup_pc = "cancelled" =>
              /\ sup_pc' = "cancelled"
              /\ sess_pc' = "closed"
              /\ connection_attempt' = connection_attempt
              /\ forward_count' = forward_count
              /\ sent_frames' = sent_frames
              /\ dispatch_log' = dispatch_log
              /\ idempotency_cache' = idempotency_cache]_vars

\* the task was cancelled while the origin was working on a request; a minute
\* later the request is still unanswered
C25_Witness ==
    /\ sup_pc = "cancelled"
    /\ last_term.kind = "cancelled"
    /\ dispatch_log # <<>>
    /\ dispatch_log[1].forwarded
    /\ dispatch_log[1].response = <<>>
    /\ dispatch_log[1].attempt = connection_attempt
    /\ sent_frames = <<>>
    /\ now - connection_start >= last_term.duration + Seconds(60)

\* C26: at most one WebSocket to the cloud is open in the process at any time;
\* when a connection attempt begins none is open, and none is open while the
\* tunnel is disabled, so the tunnel made by a re-enable connects only after
\* the previous session's WebSocket has been closed.
C26_OneSession ==
    /\ websockets_open <= 1
    /\ websockets_open = (IF sess_pc = "closed" THEN 0 ELSE 1)
    /\ sup_pc \in {"loop", "connecting"} => websockets_open = 0
    /\ tunnel_task = "none" => websockets_open = 0

\* the first tunnel was disabled while the origin was working on a request;
\* the tunnel made by the re-enable is in session
C26_Witness ==
    /\ tunnels_made = 2
    /\ websockets_open = 1
    /\ sess_pc = "recv"
    /\ sup_pc = "in_session"
    /\ dispatch_log # <<>>
    /\ dispatch_log[1].forwarded
    /\ dispatch_log[1].response = <<>>
    /\ forward_count = 1

\* C27: while enabled is false (POST /internal/keepalive/remote/disable has
\* set it and no enable has followed), the scheduler starts no keepalive
\* action.
C27_NoActionWhileDisabled ==
    [][(~enabled /\ ka_pc # "acting") => ka_pc' # "acting"]_vars

\* C28: in any join process, once POST /internal/keepalive/remote/enable has
\* made enabled true, the scheduler is awake: when no activity has been
\* recorded for the threshold duration (and the cooldown is over), a keepalive
\* action is running, or the scheduler is in its timed wait and starts one
\* when its timer ends.
C28_EnabledSchedulerActs ==
    (enabled /\ now > EarliestAction(last_activity_ts, next_allowed_ts)) =>
        \/ ka_pc = "acting"
        \/ (ka_pc = "waiting" /\ now <= ka_deadline)

\* C29: on Windows and on POSIX, stop with force = false does not terminate a
\* live process named by the PID file that is not verified to be cyberdriver
\* (by the image name or the argv heuristic): it returns 2 and leaves the
\* process and the PID file as they are. With force = true it goes on to
\* terminate the process.
C29_StopRefusesUnverified ==
    [][(cmd.name = "none" /\ cmd'.name = "stop"
            /\ pid_file.kind = "pid" /\ process.running) =>
          /\ (~cmd'.force /\ ~image_check(pid_file, process)) =>
                 /\ cmd'.exit_code = 2
                 /\ ~cmd'.signalled
                 /\ process' = process
                 /\ pid_file' = pid_file
          /\ cmd'.force => cmd'.signalled]_vars

\* C30: join exits with code 0 without starting the tunnel exactly when the
\* PID file names a live process that passes the cyberdriver check; when the
\* file is absent or unparsable, or the PID is dead, or the live process fails
\* the check, join proceeds.
C30_JoinExitsOnlyForCyberdriver ==
    [][(cmd.name = "none" /\ cmd'.name = "join") =>
          IF pid_file.kind = "pid" /\ process.running
                /\ image_check(pid_file, process)
          THEN /\ cmd'.exit_code = 0
               /\ ~cmd'.proceeds
               /\ tunnel_task' = "none"
          ELSE /\ cmd'.proceeds
               /\ tunnel_task' = "task"]_vars

\* C34: the session waits for the keepalive action to end before it consults
\* the idempotency cache: a response taken from the cache is handed to the
\* sender only while no action is in progress, and no response frame goes out
\* during an action that was running when the request was dispatched.
C34_IdleBeforeCache ==
    [][(sess_pc = "recv" /\ sess_pc' = "send") => ~IsBusy]_vars

\* C35: a keepalive action starts only at a moment that is at least the
\* threshold after last_activity_ts and not before next_allowed_ts, both read
\* when the action starts: activity recorded while the scheduler sleeps, by a
\* tunnel request (which wakes it) or by the remote activity endpoint (which
\* does not), postpones the action accordingly.
C35_ActionOnlyWhenDue ==
    [][(ka_pc # "acting" /\ ka_pc' = "acting") =>
          /\ now' >= last_activity_ts' + threshold_seconds
          /\ now' >= next_allowed_ts'
          /\ last_activity_ts' = last_activity_ts
          /\ next_allowed_ts' = next_allowed_ts
          /\ now' = now]_vars

\* an action has started exactly the threshold after an activity that only
\* the remote endpoint recorded, no request having arrived
C35_Witness ==
    /\ ka_pc = "acting"
    /\ last_activity_ts > 0
    /\ now = last_activity_ts + threshold_seconds
    /\ request_meta = <<>>
    /\ dispatch_log = <<>>
    /\ ka_deadline = now

\* C36: every keepalive action that starts releases busy: when the action
\* returns or raises, and when the scheduler task is cancelled, the idle event
\* is set again, and a request blocked in wait_until_idle goes on to its
\* forward.
C36_BusyReleased ==
    /\ (IsBusy ~> ~IsBusy)
    /\ (sess_pc = "wait_idle" ~> sess_pc = "forward")

\* a request dispatched during an action was blocked in wait_until_idle, and
\* the cancellation of the scheduler in mid-action has set the idle event and
\* woken it; the origin has not been invoked for it yet
C36_Witness ==
    /\ ka_pc = "cancelled"
    /\ idle_event = "set"
    /\ sess_pc = "idle_woken"
    /\ ~enabled
    /\ next_allowed_ts = now + Cooldown(0)
    /\ forward_count = 0

\* the dispatch takes its response from the cache
ServedFromCache == sess_pc = "recv" /\ sess_pc' = "send"

\* C39 as stated: serving a request from the idempotency cache does not
\* modify the cache.
C39_HitLeavesCache ==
    [][ServedFromCache => idempotency_cache' = idempotency_cache]_vars

\* C39: serving a request from the idempotency cache leaves the entry served
\* as it is, timestamp included, and only removes entries from the cache (the
\* expired ones, by the cleanup that precedes the lookup); the response served
\* was stored less than 60 s before, however often the key has been replayed.
C39_HitKeepsEntry ==
    [][ServedFromCache =>
          LET k == FirstKeyHeader(request_meta[1].headers).value
          IN  /\ HasKey(idempotency_cache, k)
              /\ HasKey(idempotency_cache', k)
              /\ EntryOf(idempotency_cache', k) = EntryOf(idempotency_cache, k)
              /\ response' = <<EntryOf(idempotency_cache, k).response>>
              /\ now - EntryOf(idempotency_cache, k).ts < Seconds(60)
              /\ idempotency_cache' =
                     SelectSeq(idempotency_cache,
                               LAMBDA entry : HasKey(idempotency_cache', entry.key))
      ]_vars

\* a replay is being answered from the cache 30 s after its response was
\* stored, and the lookup has removed the entry of the other key, 90 s old
C39_Witness ==
    /\ sess_pc = "send"
    /\ dispatch_log # <<>>
    /\ ~dispatch_log[1].forwarded
    /\ forward_count = 2
    /\ Len(idempotency_cache) = 1
    /\ now - idempotency_cache[1].ts = Seconds(30)
    /\ response = <<idempotency_cache[1].response>>

\* C37: the body handed to the forwarder (the buffer, which does not change
\* while the request is dispatched) is the sequence of the binary frames
\* received after the request's meta and before its "end", in arrival order:
\* no frame received before the meta, or for an earlier or replaced request,
\* is in it.
C37_BodyIsFramesOfRequest ==
    sess_pc \in {"wait_idle", "idle_woken", "forward", "send"}
        => body_buffer = frames_since_meta

\* the second request of the session is being forwarded with two frames
C37_Witness ==
    /\ sess_pc = "forward"
    /\ forward_count = 2
    /\ body_buffer = <<"a", "b">>
    /\ frames_since_meta = <<"a", "b">>

\* C38: an "end" received while no request is open starts no forward, sends
\* no frame and leaves the session open, with nothing of the session changed.
C38_EndWithoutRequestIgnored ==
    [][(sess_pc = "recv" /\ request_meta = <<>>
            /\ ends_without_request' # ends_without_request)
        => /\ forward_count' = forward_count
           /\ sent_frames' = sent_frames
           /\ response' = response
           /\ dispatch_log' = dispatch_log
           /\ sess_pc' = "recv"
           /\ request_meta' = <<>>
           /\ websockets_open' = websockets_open
           /\ sup_pc' = sup_pc]_vars

\* the session that ignored an "end" before its first request has since
\* served a request and waits for the next one
C38_Witness ==
    /\ ends_without_request = <<0>>
    /\ forward_count = 1
    /\ sess_pc = "recv"
    /\ sent_frames # <<>>
    /\ connection_attempt = 1
    /\ websockets_open = 1

\* C31: on a platform other than Windows the watchdog does nothing, requested
\* or not: its loop does not run, the screen is never captured and no console
\* switch is made.
C31_WatchdogNoOpOffWindows ==
    platform_system # "Windows"
        => /\ black_screen.pc \notin {"sleep", "confirm"}
           /\ black_screen.captures = 0
           /\ black_screen.switches = 0

\* C32: once a writer has written, the size it tracks is at most 10 MiB,
\* whatever was written and whatever the file held before. A write that would
\* take the tracked size over the cap first truncates the file to the header
\* line, and no more is written than the space that is left.
C32_TrackedSizeCapped ==
    /\ [](stdio_log.written_since_open
              => stdio_log.size_bytes <= STDIO_LOG_MAX_BYTES)
    /\ [][stdio_log'.writes # stdio_log.writes
            => /\ (stdio_log.size_bytes + stdio_log'.asked > STDIO_LOG_MAX_BYTES
                     => /\ stdio_log'.truncated >= 1
                        /\ stdio_log'.base = TruncatedHeaderBytes
                               + NewlineBytes(platform_system, 1))
               /\ stdio_log'.written <= STDIO_LOG_MAX_BYTES - stdio_log'.base
               /\ stdio_log'.size_bytes = stdio_log'.base + stdio_log'.written
               /\ stdio_log'.written <= stdio_log'.asked]_vars

\* a text longer than the cap was written after others: the file was
\* truncated, the text was cut, and the tracked size is the cap
C32_Witness ==
    /\ stdio_log.writes >= 2
    /\ stdio_log.asked > STDIO_LOG_MAX_BYTES
    /\ stdio_log.truncated = 1
    /\ stdio_log.written < stdio_log.asked
    /\ stdio_log.size_bytes = STDIO_LOG_MAX_BYTES

\* config.json holds a fingerprint: it is an object with a "fingerprint" that
\* is not empty
HoldsFingerprint(cfg) ==
    /\ cfg.file.kind = "object"
    /\ cfg.file.has_fingerprint
    /\ cfg.file.fingerprint # 0

\* C33: a call of get_config on a file that holds a fingerprint returns that
\* fingerprint and leaves it in the file, also when it rewrites the file for
\* the running version; a call makes a new fingerprint only when the file is
\* missing, is not JSON or holds no fingerprint.
C33_FingerprintPreserved ==
    [][config'.calls # config.calls
        => /\ HoldsFingerprint(config)
                => /\ ~config'.raised
                   /\ config'.returned = config.file.fingerprint
                   /\ HoldsFingerprint(config')
                   /\ config'.file.fingerprint = config.file.fingerprint
                   /\ config'.file.version = config.VERSION
                   /\ config'.rewrote = (config.file.version # config.VERSION)
                   /\ config'.minted = config.minted
           /\ config'.minted # config.minted
                => /\ ~HoldsFingerprint(config)
                   /\ config.file.kind \in {"absent", "not_json", "object"}
                   /\ config'.returned = FreshFingerprint(config)
                   /\ config'.file.fingerprint = config'.returned]_vars

\* the fingerprint of the first file was returned by a call that rewrote the
\* file for a second upgrade
C33_Witness ==
    /\ config.calls >= 2
    /\ config.VERSION = MaxVersions
    /\ config.rewrote
    /\ config.returned = 1
    /\ config.file.fingerprint = 1
    /\ config.file.version = MaxVersions
    /\ config.minted = 0

\* C40: of two join commands started together, at most one goes on to run
\* the local server and the tunnel, however their checks and writes of the PID
\* file interleave.
C40_AtMostOneJoinRuns ==
    joins # <<>> => ~(joins[1] = "running" /\ joins[2] = "running")

\* the binary frames sent so far for the response being sent
BinaryFrames == SelectSeq(sent_frames, LAMBDA f : f.type = "binary")

\* ceil(n / 16384)
CeilChunks(n) == IF n % 16384 = 0 THEN n \div 16384 ELSE n \div 16384 + 1

\* C24: the binary frames sent for a response body of length L are consecutive
\* slices of the body, starting at byte 0, each but the last of exactly 16384
\* bytes; once "end" is sent there are ceil(L / 16384) of them and they cover
\* the body up to byte L, so L = 0 gives no binary frame.
C24_ChunksRebuildBody ==
    (sess_pc \in {"send", "recv"} /\ sent_frames # <<>>) =>
        LET body == dispatch_log[1].response[1].body
            n == Len(BinaryFrames)
        IN  /\ \A k \in 1..n :
                   /\ BinaryFrames[k].body = body.id
                   /\ BinaryFrames[k].lo = (IF k = 1 THEN 0 ELSE BinaryFrames[k - 1].hi)
                   /\ BinaryFrames[k].hi > BinaryFrames[k].lo
                   /\ BinaryFrames[k].hi <= body.len
                   /\ k < CeilChunks(body.len) =>
                          BinaryFrames[k].hi - BinaryFrames[k].lo = 16384
            /\ n <= CeilChunks(body.len)
            /\ sess_pc = "recv" =>
                   /\ n = CeilChunks(body.len)
                   /\ n > 0 => BinaryFrames[n].hi = body.len
                   /\ n = 0 => body.len = 0

\* a body of 40000 bytes has been sent as 16384, 16384 and 7232 bytes
C24_Witness ==
    /\ sess_pc = "recv"
    /\ sent_frames # <<>>
    /\ dispatch_log[1].response[1].body.len = 40000
    /\ Len(BinaryFrames) = 3
    /\ BinaryFrames[1].hi - BinaryFrames[1].lo = 16384
    /\ BinaryFrames[2].hi - BinaryFrames[2].lo = 16384
    /\ BinaryFrames[3].hi - BinaryFrames[3].lo = 7232

\* C23: the pre-retry cleanup runs before every connection attempt, so the
\* cache is empty whenever an attempt begins, every entry it holds was created
\* in the current session, and a response served from the cache is one that the
\* origin gave in the same session.
C23_CacheEmptyAtAttempt ==
    /\ sup_pc = "connecting" => idempotency_cache = <<>>
    /\ \A i \in 1..Len(idempotency_cache) :
           /\ idempotency_cache[i].key \in KeyValues
           /\ first_response[idempotency_cache[i].key] # <<>>
           /\ first_response[idempotency_cache[i].key][1].attempt
                  = connection_attempt
    /\ (dispatch_log # <<>> /\ ~dispatch_log[1].forwarded) =>
           /\ dispatch_log[1].prev # <<>>
           /\ dispatch_log[1].prev[1].attempt = dispatch_log[1].attempt
           /\ dispatch_log[1].response = <<dispatch_log[1].prev[1].response>>

\* a session that lasted 60 s and had stored a response under the key ended
\* with a rate-limit close; after the wait, the next session got a request
\* with the same key and forwarded it to the origin
C23_Witness ==
    /\ connection_attempt = 2
    /\ last_term.code = CloseCodeRateLimit
    /\ last_term.duration = Seconds(60)
    /\ last_sleep.kind = "ratelimit"
    /\ dispatch_log # <<>>
    /\ dispatch_log[1].attempt = 2
    /\ dispatch_log[1].forwarded
    /\ dispatch_log[1].prev # <<>>
    /\ dispatch_log[1].prev[1].attempt = 1

\* the "end" of a request with a key of its own arrives while the cache holds
\* exactly 1000 entries, none of them expired
NewKeyAtCapacity ==
    /\ sess_pc = "recv"
    /\ request_meta # <<>>
    /\ KeyGiven(FirstKeyHeader(request_meta[1].headers))
    /\ ~HasKey(idempotency_cache, FirstKeyHeader(request_meta[1].headers).value)
    /\ Len(idempotency_cache) = 1000
    /\ \A i \in 1..1000 : ~Expired(idempotency_cache[i], now)

\* C21: when the cache holds exactly 1000 unexpired entries and a request with
\* a new key is processed, exactly the 200 entries with the oldest timestamps
\* are evicted (by the sweep that precedes the lookup), and the new key's entry
\* is present once the response has been stored.
C21_EvictsAtCapacity ==
    [][/\ (NewKeyAtCapacity /\ sess_pc' # "recv") =>
              /\ Len(idempotency_cache') = 800
              /\ \A i \in 1..800 :
                     idempotency_cache'[i] = idempotency_cache[i + 200]
       /\ (sess_pc = "forward" /\ sess_pc' = "send"
             /\ KeyGiven(FirstKeyHeader(request_meta[1].headers))) =>
              HasKey(idempotency_cache',
                     FirstKeyHeader(request_meta[1].headers).value)]_vars

----------------------------------------------------------------------------
(* Properties of the framing *)

\* a request is open: its meta has been received and its "end" has not
RequestOpen == sess_pc = "recv" /\ request_meta # <<>>

\* C13: a meta that arrives while a request is open is not accepted as a
\* request (the session terminates instead).
C13_MetaWhileOpenRejected ==
    [][RequestOpen => request_meta' = request_meta]_vars

\* C14: bytes that arrive while no request is open are not accepted (the
\* session closes instead): an open session without a request has buffered
\* nothing.
C14_NoBytesWithoutRequest ==
    (sess_pc # "closed" /\ request_meta = <<>>) => body_buffer = <<>>

\* C15: a text frame that is not valid JSON ends the session, not the
\* process: the supervisor counts it as a failure like any other error, sleeps
\* the backoff delay and goes on to the next attempt.
C15_InvalidJsonBacksOff ==
    (last_term.kind = "invalid_json") =>
        /\ sup_pc # "exited"
        /\ sup_pc \in {"backoff_sleep", "loop", "connecting"} => sess_pc = "closed"
        /\ last_sleep.kind = "backoff"
        /\ last_sleep.attempt = last_term.attempt
        /\ last_sleep.base = last_term.sleep_time_before
        /\ last_sleep.duration >= Seconds(last_sleep.base)
        /\ 10 * last_sleep.duration <= 13 * Seconds(last_sleep.base)
        /\ connection_attempt \in {last_term.attempt, last_term.attempt + 1}

\* the session that followed the one ended by the invalid frame is open
C15_Witness ==
    /\ last_term.kind = "invalid_json"
    /\ connection_attempt = last_term.attempt + 1
    /\ sup_pc = "in_session"
    /\ sess_pc = "recv"

\* the response to the dispatch answers a transport error of the forward
AfterTransportError ==
    /\ dispatch_log # <<>>
    /\ dispatch_log[1].origin # <<>>
    /\ dispatch_log[1].origin[1].kind = "exception"

\* the response to the dispatch answers a 5xx of the origin
AfterOrigin5xx ==
    /\ dispatch_log # <<>>
    /\ dispatch_log[1].origin # <<>>
    /\ dispatch_log[1].origin[1].kind = "response"
    /\ dispatch_log[1].origin[1].status >= 500

\* C16: a forward that fails at transport level or is answered 5xx by the
\* origin does not end the session: a forward in progress is followed by the
\* sending of a response, which is a 500 with a non-empty text/plain body
\* holding the error string in the transport case and carries the origin's
\* status in the 5xx case.
C16_DispatchErrorsAnswered ==
    /\ [][sess_pc = "forward" => sess_pc' = "send"]_vars
    /\ [](AfterTransportError =>
             /\ dispatch_log[1].response[1].status = 500
             /\ dispatch_log[1].response[1].headers.content_type = "text/plain"
             /\ dispatch_log[1].response[1].body.id = "error text"
             /\ dispatch_log[1].response[1].body.len > 0)
    /\ [](AfterOrigin5xx =>
             /\ dispatch_log[1].response[1].status = dispatch_log[1].origin[1].status
             /\ dispatch_log[1].response[1].body.len > 0)

\* the synthetic 500 has been sent whole, the session is open for the next
\* request, and this was the second request forwarded in the session
C16_Witness ==
    /\ AfterTransportError
    /\ sess_pc = "recv"
    /\ sent_frames # <<>>
    /\ sent_frames[Len(sent_frames)].type = "end"
    /\ sent_frames[1].status = 500
    /\ forward_count = 2
    /\ connection_attempt = 1

\* the response on the wire is complete, or none has been started
WireIdle ==
    sent_frames = <<>> \/ sent_frames[Len(sent_frames)].type = "end"

\* C17: the frames of two responses are never interleaved: a frame that goes
\* out belongs to the response being sent (a meta if none is being sent, no
\* meta otherwise), and the dispatch of another request begins only when the
\* response on the wire has had its "end".
C17_NoInterleaving ==
    [][/\ (sent_frames' # sent_frames /\ sent_frames' # <<>>) =>
              /\ sent_frames' = Append(sent_frames, sent_frames'[Len(sent_frames')])
              /\ dispatch_log' = dispatch_log
              /\ sent_frames'[1].requestId = dispatch_log[1].requestId
              /\ IF sent_frames = <<>>
                 THEN sent_frames'[1].type = "meta"
                 ELSE /\ sent_frames'[Len(sent_frames')].type # "meta"
                      /\ sent_frames[Len(sent_frames)].type # "end"
       /\ (dispatch_log' # dispatch_log /\ sess_pc # "forward") => WireIdle
      ]_vars

\* the second response of the session, in two chunks, has been sent whole
C17_Witness ==
    /\ forward_count = 2
    /\ connection_attempt = 1
    /\ sess_pc = "recv"
    /\ Len(sent_frames) = 4
    /\ sent_frames[4].type = "end"

\* C18: receiving goes on while a request is being dispatched: with a forward
\* or a response in progress, the session can take the meta of a later
\* request.
C18_ReceiveWhileDispatching ==
    (sess_pc \in {"forward", "send"}) => ENABLED (\E meta \in Metas : RecvMeta(meta))

----------------------------------------------------------------------------
(* Properties of the keepalive scheduler *)

\* a request is in flight: from the start of its dispatch to its "end"
InFlight == sess_pc \in {"wait_idle", "idle_woken", "forward", "send"}

\* C3: while a keepalive action is in progress no invocation of the origin
\* begins; a request that has arrived during the action is forwarded only
\* after the action has ended.
C3_NoForwardWhileBusy ==
    [][forward_count' > forward_count => ~IsBusy]_vars

\* C4: a keepalive action never starts while a request is in flight.
C4_NoActionWhileInFlight ==
    [][(~IsBusy /\ IsBusy') => ~InFlight]_vars

----------------------------------------------------------------------------
(* Properties of the supervisor *)

AfterClose(code) == last_term.kind = "closed" /\ last_term.code = code

\* C5: once a session has ended with close code 4001 the process has exited
\* with code 1: no connection attempt follows the one that was closed, and no
\* backoff or rate-limit sleep was started for it.
C5_AuthCloseExits ==
    AfterClose(CloseCodeAuth) =>
        /\ sup_pc = "exited"
        /\ exit_code = 1
        /\ connection_attempt = last_term.attempt
        /\ last_sleep.attempt < last_term.attempt

C5_Witness ==
    /\ AfterClose(CloseCodeAuth)
    /\ sup_pc = "exited"
    /\ last_term.attempt >= 2
    /\ last_sleep.kind = "backoff"

\* C6: once the server has rejected the WebSocket upgrade with HTTP 403 the
\* process has exited with code 1 and no connection attempt follows.
C6_ForbiddenUpgradeExits ==
    (last_term.kind = "connect_failed" /\ last_term.code = StatusForbidden) =>
        /\ sup_pc = "exited"
        /\ exit_code = 1
        /\ connection_attempt = last_term.attempt

\* the wait each close reason of CloseEvents asks for, in seconds
ExpectedWait(reason) ==
    CASE reason = ReasonWait12 -> 12
      [] reason = ReasonEmbedded -> 3
      [] OTHER -> 60

\* C7: after a close with code 4008 the supervisor sleeps the N seconds of the
\* reason "Wait N seconds" (60 without such a reason); the process does not
\* exit, and until the next session ends that sleep is the only one started:
\* the next connection attempt follows it without a backoff sleep.
C7_RateLimitSleep ==
    AfterClose(CloseCodeRateLimit) =>
        /\ sup_pc \in {"ratelimit_sleep", "loop", "connecting", "in_session"}
        /\ last_sleep.kind = "ratelimit"
        /\ last_sleep.attempt = last_term.attempt
        /\ last_sleep.duration = Seconds(ExpectedWait(last_term.reason))
        /\ sleep_until = now + Seconds(ExpectedWait(last_term.reason))

C7_Witness ==
    /\ AfterClose(CloseCodeRateLimit)
    /\ last_term.reason = ReasonEmbedded
    /\ last_sleep.duration = Seconds(3)
    /\ last_term.sleep_time_before > min_sleep
    /\ sup_pc = "connecting"
    /\ connection_attempt = last_term.attempt + 1

Retried == last_term.kind # "none" /\ sup_pc # "exited"

C10_LongSessionRestartsBackoff ==
    (sup_pc = "backoff_sleep" /\ last_term.duration >= Seconds(10)) =>
        /\ last_sleep.base = min_sleep
        /\ last_sleep.duration <= 13

\* min(2^i, 16)
CappedBase(i) == Min(2 ^ i, 16)

\* C11: the i-th consecutive backoff sleep lasts between min(2^i, 16) s and
\* 1.3 * min(2^i, 16) s: the base starts at 1 s, doubles after each backoff
\* sleep and never exceeds 16 s; the jitter is 0% to 30% of the base.
C11_BackoffSchedule ==
    (sup_pc = "backoff_sleep") =>
        /\ last_sleep.base = CappedBase(last_sleep.index)
        /\ last_sleep.duration >= Seconds(CappedBase(last_sleep.index))
        /\ 10 * last_sleep.duration <= 13 * Seconds(CappedBase(last_sleep.index))

\* the sixth backoff sleep in a row: the base is capped at 16 s, the jitter
\* is 30%
C11_Witness ==
    /\ sup_pc = "backoff_sleep"
    /\ last_sleep.index = 5
    /\ last_sleep.base = 16
    /\ last_sleep.duration = 208

\* the last termination was not an authentication failure
Recoverable ==
    /\ last_term.kind # "none"
    /\ ~(last_term.kind = "closed" /\ last_term.code \in {CloseCodeAuth, StatusForbidden})

\* C12: after a termination that is not an authentication failure (a close
\* with another code or none, an error of the session, a failed connect) the
\* process does not exit, and another connection attempt eventually starts.
C12_RecoverableRetried ==
    /\ [](Recoverable => sup_pc # "exited")
    /\ \A n \in 1..(MaxAttempts - 1) :
           (Recoverable /\ last_term.attempt = n) ~> (connection_attempt > n)

\* the third attempt has started after a graceful close or session error that
\* ended the second one
C12_Witness ==
    /\ last_term.kind = "error"
    /\ last_term.attempt = 2
    /\ connection_attempt = 3
    /\ sup_pc = "connecting"

====
